---- MODULE Spec2Model ----
(***************************************************************************)
(* Model of the sector-opportunity scoring engine                          *)
(* (src/analysis/signals.py, src/analysis/scoring.py, src/config.py).      *)
(*                                                                         *)
(* Number conventions                                                      *)
(*   raw value   an integer k standing for the decimal k/10 (one decimal   *)
(*               digit), e.g. a P/E of 22.4 is 224;                        *)
(*   score       hundredths of a point: 50.0 is 5000, 100.0 is 10000;      *)
(*   weight      thousandths: 0.25 is 250, the tolerance 0.01 is 10.       *)
(* A Python dict is a function whose DOMAIN is the set of its keys.        *)
(* round(x, 2) is rounding to the nearest hundredth, ties to even.         *)
(* Arithmetic is exact except where the code's outcome depends on binary64 *)
(* rounding (the std == 0 test of the z-score normalizer and the weight    *)
(* sum test), which is computed on the 53-bit significands.                *)
(***************************************************************************)
EXTENDS Integers, Sequences, FiniteSets, TLC

VARIABLES
    pc,        \* "new", "ready", "failed", "scored", "raised"; "list", "reported"
               \* under SpecReport; "off" elsewhere
    weights,   \* SectorScorer.weights
    data,      \* the input structure handed to calculate_scores
    scores,    \* the list calculate_scores returned / get_summary_report is given
    err,       \* the exception that escaped, "none" if none
    nvalues,   \* normalizer input: sector -> raw value
    nhib,      \* normalizer input: higher_is_better
    nresult,   \* normalizer output
    nphase,    \* "input", "minmax", "zscore"; "off" elsewhere
    report,    \* the dict get_summary_report returned
    frames,    \* the local variables of the calculate_scores calls in progress
    rpc,       \* where each of the concurrent calculate_scores calls stands
    files,     \* the cache directory: cache key -> file
    now,       \* the wall clock, in hours
    ret,       \* the last cache step and what it returned
    sigop,     \* the signal function applied, "input" before; "off" elsewhere
    sigarg,    \* its argument
    sigres,    \* its outcome: [err, value]
    cached_data \* _cached_data of routes/scores.py: None or the fetched data

cvars == <<pc, weights, data, scores, err>>
nvars == <<nvalues, nhib, nresult, nphase>>
rvars == <<report>>
tvars == <<frames, rpc>>
kvars == <<files, now, ret>>
svars == <<sigop, sigarg, sigres>>
mvars == <<cached_data>>
vars == <<pc, weights, data, scores, err, nvalues, nhib, nresult, nphase, report, frames, rpc, files, now, ret, sigop, sigarg, sigres, cached_data>>

\* the parts of the state a specification does not use stay at these values
CoreOff ==
    pc = "off" /\ weights = <<>> /\ data = <<>> /\ scores = <<>> /\ err = "none"

NormOff ==
    nvalues = <<>> /\ nhib = TRUE /\ nresult = <<>> /\ nphase = "off"

ReportOff == report = <<>>

RunsOff == frames = <<>> /\ rpc = <<>>

CacheOff == files = <<>> /\ now = 0 /\ ret = <<>>

SignalsOff == sigop = "off" /\ sigarg = <<>> /\ sigres = <<>>

MemoOff == cached_data = <<>>

(***************************************************************************)
(* Arithmetic helpers                                                      *)
(***************************************************************************)
Abs(x) == IF x < 0 THEN -x ELSE x

Sgn(x) == IF x < 0 THEN -1 ELSE IF x > 0 THEN 1 ELSE 0

Min2(a, b) == IF a < b THEN a ELSE b

Max2(a, b) == IF a > b THEN a ELSE b

EmptyMap == [k \in {} |-> 0]

\* every dict with keys among K and values in V
Maps(K, V) == UNION {[d -> V] : d \in SUBSET K}

(***************************************************************************)
(* Configuration (config.py)                                               *)
(***************************************************************************)
\* keys of SECTOR_ETFS, in dict order
SECTOR_ETFS ==
    << "Information Technology", "Financials", "Energy", "Health Care",
       "Consumer Discretionary", "Consumer Staples", "Industrials",
       "Materials", "Utilities", "Real Estate", "Communication Services" >>

Sectors == {SECTOR_ETFS[i] : i \in 1..Len(SECTOR_ETFS)}

RECURSIVE SumOver(_, _)
SumOver(f, S) ==
    IF S = {} THEN 0
    ELSE LET k == CHOOSE x \in S : TRUE IN f[k] + SumOver(f, S \ {k})

MapSum(f) == SumOver(f, DOMAIN f)

MapSumSq(f) == SumOver([k \in DOMAIN f |-> f[k] * f[k]], DOMAIN f)

MapMin(f) == CHOOSE v \in {f[k] : k \in DOMAIN f} : \A k \in DOMAIN f : v <= f[k]

MapMax(f) == CHOOSE v \in {f[k] : k \in DOMAIN f} : \A k \in DOMAIN f : v >= f[k]

\* round(num/den) to an integer, ties to even; den > 0
RoundHalfEven(num, den) ==
    LET q == num \div den
        r == num % den
    IN  IF 2 * r < den THEN q
        ELSE IF 2 * r > den THEN q + 1
        ELSE IF q % 2 = 0 THEN q ELSE q + 1

\* floor(sqrt(n)) by bisection; lo*lo <= n < hi*hi
RECURSIVE ISqrtB(_, _, _)
ISqrtB(n, lo, hi) ==
    IF hi - lo <= 1 THEN lo
    ELSE LET mid == (lo + hi) \div 2
         IN  IF mid * mid <= n THEN ISqrtB(n, mid, hi) ELSE ISqrtB(n, lo, mid)

ISqrt(n) == ISqrtB(n, 0, 46341)

(***************************************************************************)
(* binary64 arithmetic on significands.  A non-negative double is counted  *)
(* in units of the last place of the input value; a count up to 2^57 is    *)
(* the pair <<hi, lo>> = hi * 2^26 + lo.  Only np.mean of equal values     *)
(* needs it: whether fl(fl(v + ... + v) / n) is v again.                   *)
(***************************************************************************)
Base == 8192 * 8192

BNorm(hi, lo) == <<hi + (lo \div Base), lo % Base>>

BAdd(x, y) == BNorm(x[1] + y[1], x[2] + y[2])

BLess(x, y) == x[1] < y[1] \/ (x[1] = y[1] /\ x[2] < y[2])

BMulSmall(x, c) == BNorm(x[1] * c, x[2] * c)

\* x / d rounded to an integer, ties to even; 1 <= d <= 20
BRoundDiv(x, d) ==
    LET q1 == x[1] \div d
        t  == (x[1] % d) * Base + x[2]
        q2 == t \div d
        r  == t % d
        q  == <<q1, q2>>
    IN  IF 2 * r < d THEN q
        ELSE IF 2 * r > d THEN BAdd(q, <<0, 1>>)
        ELSE IF q2 % 2 = 0 THEN q ELSE BAdd(q, <<0, 1>>)

\* 2^52 and 2^53 as pairs
P52 == <<Base, 0>>

P53 == <<2 * Base, 0>>

\* distance between neighbouring doubles at magnitude x (x < 2^57)
Spacing(x) ==
    IF BLess(x, P53) THEN 1
    ELSE IF BLess(x, BMulSmall(P53, 2)) THEN 2
    ELSE IF BLess(x, BMulSmall(P53, 4)) THEN 4
    ELSE IF BLess(x, BMulSmall(P53, 8)) THEN 8
    ELSE 16

\* round to nearest double, ties to even
RoundNearest(x) == LET s == Spacing(x) IN BMulSmall(BRoundDiv(x, s), s)

\* 53-bit significand of the double nearest to k/10 (k >= 1): binary
\* expansion of k/10 with integer part I and remainder r/10
RECURSIVE Significand(_, _)
Significand(I, r) ==
    IF ~BLess(I, P52)
    THEN IF r > 5 \/ (r = 5 /\ I[2] % 2 = 1) THEN BAdd(I, <<0, 1>>) ELSE I
    ELSE Significand(BNorm(2 * I[1], 2 * I[2] + ((2 * r) \div 10)), (2 * r) % 10)

\* fl(v + v + ... + v), i terms, accumulated left to right
RECURSIVE FloatSum(_, _)
FloatSum(M, i) ==
    IF i = 0 THEN <<0, 0>> ELSE RoundNearest(BAdd(FloatSum(M, i - 1), M))

\* np.mean of n copies of the double nearest to k/10, compared with that
\* double: -1 if the mean is below it, 0 if equal, 1 if above (1 <= n <= 5)
MeanRounding(k, n) ==
    IF k = 0 THEN 0
    ELSE LET M  == Significand(<<0, Abs(k) \div 10>>, Abs(k) % 10)
             S  == FloatSum(M, n)
             \* twice the rounded quotient S / n
             R2 == IF BLess(S, BMulSmall(P52, n))
                     THEN BRoundDiv(BMulSmall(S, 2), n)
                   ELSE IF BLess(S, BMulSmall(P53, n))
                     THEN BMulSmall(BRoundDiv(S, n), 2)
                   ELSE BMulSmall(BRoundDiv(S, 2 * n), 4)
             M2 == BMulSmall(M, 2)
             c  == IF BLess(R2, M2) THEN -1 ELSE IF BLess(M2, R2) THEN 1 ELSE 0
         IN  Sgn(k) * c

(***************************************************************************)
(* binary64 addition of weights.  A double in [0, 2) that is 0 or at least *)
(* 0.001 is a whole number of units of 2^-62, kept in three limbs          *)
(* <<a, b, c>> = a * 2^42 + b * 2^21 + c.                                  *)
(***************************************************************************)
Limb == 2048 * 1024

T3Norm(a, b, c) ==
    LET b1 == b + (c \div Limb)
    IN  <<a + (b1 \div Limb), b1 % Limb, c % Limb>>

T3Add(x, y) == T3Norm(x[1] + y[1], x[2] + y[2], x[3] + y[3])

\* x - y for x >= y
T3Sub(x, y) == T3Norm(x[1] - y[1], x[2] - y[2], x[3] - y[3])

T3Less(x, y) ==
    \/ x[1] < y[1]
    \/ x[1] = y[1] /\ x[2] < y[2]
    \/ x[1] = y[1] /\ x[2] = y[2] /\ x[3] < y[3]

T3Half(x) ==
    <<x[1] \div 2,
      (x[1] % 2) * (Limb \div 2) + (x[2] \div 2),
      (x[2] % 2) * (Limb \div 2) + (x[3] \div 2)>>

RECURSIVE T3Shl(_, _)
T3Shl(x, j) == IF j = 0 THEN x ELSE T3Shl(T3Norm(2 * x[1], 2 * x[2], 2 * x[3]), j - 1)

\* the double nearest to x * 2^j + (rb/2 + something below if st) * 2^j,
\* ties to even: shift right until 53 bits are left, round, shift back
RECURSIVE Round53(_, _, _, _)
Round53(x, j, rb, st) ==
    IF x[1] < 2048
    THEN LET up == rb = 1 /\ (st \/ x[3] % 2 = 1)
         IN  T3Shl(IF up THEN T3Add(x, <<0, 0, 1>>) ELSE x, j)
    ELSE Round53(T3Half(x), j + 1, x[3] % 2, st \/ rb = 1)

\* float(k/1000) for a weight of k thousandths, 0 <= k <= 1999
ToDouble(k) ==
    IF k = 0 THEN <<0, 0, 0>>
    ELSE LET t1 == k * (Limb \div 2)
             q1 == t1 \div 1000
             t2 == (t1 % 1000) * Limb
             q2 == t2 \div 1000
             t3 == (t2 % 1000) * Limb
             q3 == t3 \div 1000
             r3 == t3 % 1000
         IN  Round53(<<q1, q2, q3>>, 0,
                     IF 2 * r3 >= 1000 THEN 1 ELSE 0, (2 * r3) % 1000 # 0)

\* x + y in binary64
FloatAdd(x, y) == Round53(T3Add(x, y), 0, 0, FALSE)

(***************************************************************************)
(* 4.1 Normalizers (signals.py)                                            *)
(***************************************************************************)
\* round(100 * (val - min) / (max - min), 2), inverted first when lower is
\* better; in hundredths
normalize_score(values, higher_is_better) ==
    IF DOMAIN values = {} THEN EmptyMap
    ELSE LET min_val == MapMin(values)
             max_val == MapMax(values)
         IN  IF max_val = min_val THEN [k \in DOMAIN values |-> 5000]
             ELSE [k \in DOMAIN values |->
                    LET num == 10000 * (values[k] - min_val)
                        den == max_val - min_val
                    IN  IF higher_is_better
                        THEN RoundHalfEven(num, den)
                        ELSE RoundHalfEven(10000 * den - num, den)]

\* round(1500 * |a| / sqrt(D)) for 9*a*a < 100*D, ties to even.
\* F = floor(9000000 * a^2 / D) by long division, floor(2X) = isqrt(F).
ZRound(a, D) ==
    LET x0 == a * a
        q0 == x0 \div D
        r0 == x0 % D
        q1 == (300 * r0) \div D
        r1 == (300 * r0) % D
        q2 == (300 * r1) \div D
        r2 == (300 * r1) % D
        q3 == (100 * r2) \div D
        r3 == (100 * r2) % D
        F  == 9000000 * q0 + 30000 * q1 + 100 * q2 + q3
        t  == ISqrt(F)
        tie == r3 = 0 /\ t * t = F /\ t % 2 = 1
    IN  IF tie THEN (IF ((t - 1) \div 2) % 2 = 0 THEN (t - 1) \div 2 ELSE (t + 1) \div 2)
        ELSE (t + 1) \div 2

\* faulty variant: the score is not clamped to [0, 100]
ZScoreOf_noclamp(val, n, S, D, higher_is_better) ==
    LET a     == n * val - S
        score == 5000 + Sgn(a) * ((1500 * Abs(a)) \div ISqrt(D))
    IN  IF higher_is_better THEN score ELSE 10000 - score

\* z = (val - mean) / std with mean = S/n and std = sqrt(D)/n, D = n*Q - S*S;
\* score = 50 + 15 z, clamped to [0, 100], inverted when lower is better,
\* rounded to 2 places; in hundredths
ZScoreOf(val, n, S, D, higher_is_better) ==
    LET a     == n * val - S
        raw   == IF 9 * a * a >= 100 * D
                 THEN 5000 + Sgn(a) * 5000
                 ELSE 5000 + Sgn(a) * ZRound(a, D)
        score == IF raw < 0 THEN 0 ELSE IF raw > 10000 THEN 10000 ELSE raw
    IN  IF higher_is_better THEN score ELSE 10000 - score

\* faulty variant: the lower-is-better inversion (signals.py line 74) is dropped
normalize_score_zscore_noinvert(values, higher_is_better) ==
    IF DOMAIN values = {} THEN EmptyMap
    ELSE LET n == Cardinality(DOMAIN values)
             S == MapSum(values)
             D == n * MapSumSq(values) - S * S
         IN  IF D = 0 THEN [k \in DOMAIN values |-> 5000]
             ELSE [k \in DOMAIN values |-> ZScoreOf(values[k], n, S, D, TRUE)]

normalize_score_zscore(values, higher_is_better) ==
    IF DOMAIN values = {} THEN EmptyMap
    ELSE LET n == Cardinality(DOMAIN values)
             S == MapSum(values)
             D == n * MapSumSq(values) - S * S
             \* all values equal: the deviations from the computed mean are
             \* all -c ulps, so std is 0 only if the mean came out exact
             c == IF D = 0 THEN MeanRounding(MapMin(values), n) ELSE 0
         IN  IF D = 0 /\ c = 0 THEN [k \in DOMAIN values |-> 5000]
             ELSE IF D = 0
             THEN [k \in DOMAIN values |->
                    IF higher_is_better THEN 5000 - 1500 * c ELSE 5000 + 1500 * c]
             ELSE [k \in DOMAIN values |->
                    ZScoreOf(values[k], n, S, D, higher_is_better)]

(***************************************************************************)
(* Input shapes.                                                           *)
(*   Optional value: None is <<>>, a present value v is <<v>>.             *)
(*   Price table (DataFrame): [rows, columns], columns a function from     *)
(*     column name to the column's month-end levels, oldest first; row i   *)
(*     carries the level of its month.  Tables end on the last trading day *)
(*     of the current month and a month has DaysPerMonth rows, so a table  *)
(*     of r rows spans ceil(r / DaysPerMonth) months.                      *)
(*   Monthly series (employment counts, interest rates): a sequence, one   *)
(*     observation per month, oldest first, ending in the current month.   *)
(***************************************************************************)
None == <<>>

Some(v) == <<v>>

IsNone(o) == o = <<>>

\* dict.get(key) with default None
Get(d, key) == IF key \in DOMAIN d THEN Some(d[key]) ELSE None

\* dict.get(key, default)
GetOr(d, key, default) == IF key \in DOMAIN d THEN d[key] ELSE default

Restrict(f, S) == [k \in S |-> f[k]]

DaysPerMonth == 21

MOMENTUM_PERIODS == <<3, 6, 12>>

MonthsOf(rows) == (rows + DaysPerMonth - 1) \div DaysPerMonth

\* month (1 = oldest) of row i (1 = oldest) in a table of `rows` rows
MonthIdx(rows, i) ==
    LET offset == (DaysPerMonth - (rows % DaysPerMonth)) % DaysPerMonth
    IN  ((i - 1 + offset) \div DaysPerMonth) + 1

\* df.empty
Empty(df) == df.rows = 0 \/ DOMAIN df.columns = {}

\* df['Close'] if 'Close' in df.columns else df.get('close'): the column's
\* name, or None when the table has neither
CloseColumn(df) ==
    IF "Close" \in DOMAIN df.columns THEN Some("Close")
    ELSE IF "close" \in DOMAIN df.columns THEN Some("close")
    ELSE None

VolumeColumn(df) ==
    IF "Volume" \in DOMAIN df.columns THEN Some("Volume")
    ELSE IF "volume" \in DOMAIN df.columns THEN Some("volume")
    ELSE None

\* column.iloc[-k], k >= 1
Iloc(df, col, k) == df.columns[col][MonthIdx(df.rows, df.rows - k + 1)]

\* sum of column.iloc[-k:]
RECURSIVE TailSum(_, _, _)
TailSum(df, col, k) ==
    IF k = 0 THEN 0 ELSE Iloc(df, col, k) + TailSum(df, col, k - 1)

\* the sectors of a price dict that the loops do not skip: not the
\* benchmark, not None, not empty
Usable(sector_prices) ==
    {s \in DOMAIN sector_prices :
        /\ s # "_benchmark"
        /\ ~IsNone(sector_prices[s])
        /\ ~Empty(sector_prices[s][1])}

(***************************************************************************)
(* 4.2 Momentum (signals.py)                                               *)
(***************************************************************************)
PeriodName(months) ==
    IF months = 3 THEN "3mo" ELSE IF months = 6 THEN "6mo" ELSE "12mo"

\* ((end - start) / start) * 100, in tenths of a percent
ReturnOver(df, col, trading_days) ==
    LET start_price == Iloc(df, col, trading_days)
        end_price   == Iloc(df, col, 1)
    IN  ((end_price - start_price) * 1000) \div start_price

\* {period: return} of one table with a close column
SectorReturns(df, col) ==
    LET have == {i \in 1..Len(MOMENTUM_PERIODS) :
                    df.rows >= MOMENTUM_PERIODS[i] * DaysPerMonth}
    IN  [p \in {PeriodName(MOMENTUM_PERIODS[i]) : i \in have} |->
            LET i == CHOOSE j \in have : PeriodName(MOMENTUM_PERIODS[j]) = p
            IN  ReturnOver(df, col, MOMENTUM_PERIODS[i] * DaysPerMonth)]

calculate_price_returns(sector_prices) ==
    LET kept == {s \in Usable(sector_prices) :
                    LET df == sector_prices[s][1]
                    IN  /\ ~IsNone(CloseColumn(df))
                        /\ df.rows >= 20
                        /\ DOMAIN SectorReturns(df, CloseColumn(df)[1]) # {}}
    IN  [s \in kept |->
            SectorReturns(sector_prices[s][1], CloseColumn(sector_prices[s][1])[1])]

\* len(close) on a missing close column (close is None) raises TypeError:
\* lines 144 and 155 take len() without the None test of line 105
relative_strength_raises(sector_prices) ==
    LET bench == Get(sector_prices, "_benchmark")
    IN  /\ ~IsNone(bench)
        /\ ~IsNone(bench[1])
        /\ ~Empty(bench[1][1])
        /\ \/ IsNone(CloseColumn(bench[1][1]))
           \/ /\ bench[1][1].rows >= 12 * DaysPerMonth
              /\ \E s \in Usable(sector_prices) :
                    IsNone(CloseColumn(sector_prices[s][1]))

\* faulty variant: a sector shorter than the lookback is not skipped, its
\* return is taken over the rows it has
calculate_relative_strength_anylength(sector_prices) ==
    LET bench        == Get(sector_prices, "_benchmark")
        trading_days == 12 * DaysPerMonth
    IN  IF IsNone(bench) \/ IsNone(bench[1]) \/ Empty(bench[1][1]) THEN EmptyMap
        ELSE IF bench[1][1].rows < trading_days THEN EmptyMap
        ELSE LET bdf  == bench[1][1]
                 bret == ReturnOver(bdf, CloseColumn(bdf)[1], trading_days)
             IN  [s \in Usable(sector_prices) |->
                    LET df == sector_prices[s][1]
                    IN  ReturnOver(df, CloseColumn(df)[1],
                                   IF df.rows < trading_days THEN df.rows ELSE trading_days)
                        - bret]

calculate_relative_strength(sector_prices) ==
    LET bench        == Get(sector_prices, "_benchmark")
        trading_days == 12 * DaysPerMonth
    IN  IF IsNone(bench) \/ IsNone(bench[1]) \/ Empty(bench[1][1]) THEN EmptyMap
        ELSE IF bench[1][1].rows < trading_days THEN EmptyMap
        ELSE LET bdf  == bench[1][1]
                 bret == ReturnOver(bdf, CloseColumn(bdf)[1], trading_days)
                 kept == {s \in Usable(sector_prices) :
                             sector_prices[s][1].rows >= trading_days}
             IN  [s \in kept |->
                    LET df == sector_prices[s][1]
                    IN  ReturnOver(df, CloseColumn(df)[1], trading_days) - bret]

\* ((short_avg - long_avg) / long_avg) * 100, in tenths of a percent
VolumeTrendOf(df, col, short_period, long_period) ==
    LET short_sum == TailSum(df, col, short_period)
        long_sum  == TailSum(df, col, long_period)
    IN  ((short_sum * long_period - long_sum * short_period) * 1000)
            \div (long_sum * short_period)

calculate_volume_trend(sector_prices) ==
    LET short_period == 20
        long_period  == 50
        kept == {s \in Usable(sector_prices) :
                    LET df == sector_prices[s][1]
                    IN  /\ ~IsNone(VolumeColumn(df))
                        /\ df.rows >= long_period
                        /\ TailSum(df, VolumeColumn(df)[1], long_period) > 0}
    IN  [s \in kept |->
            LET df == sector_prices[s][1]
            IN  VolumeTrendOf(df, VolumeColumn(df)[1], short_period, long_period)]

\* faulty variant: a sector without a 12-month return is left out
Returns12mo_skipmissing(returns) ==
    [s \in {t \in DOMAIN returns : "12mo" \in DOMAIN returns[t]} |-> returns[s]["12mo"]]

\* {s: r.get('12mo', 0) for s, r in returns.items()}
Returns12mo(returns) == [s \in DOMAIN returns |-> GetOr(returns[s], "12mo", 0)]

\* faulty variant: a sector a component lacks counts as 0 instead of 50
CombineMomentum_default0(norm_returns, norm_rel_strength, norm_volume) ==
    [sector \in Sectors |->
        RoundHalfEven(50 * GetOr(norm_returns, sector, 0)
                      + 35 * GetOr(norm_rel_strength, sector, 0)
                      + 15 * GetOr(norm_volume, sector, 0), 100)]

\* faulty variant: the weights of return and relative strength are swapped
CombineMomentum_swapped(norm_returns, norm_rel_strength, norm_volume) ==
    [sector \in Sectors |->
        RoundHalfEven(35 * GetOr(norm_returns, sector, 5000)
                      + 50 * GetOr(norm_rel_strength, sector, 5000)
                      + 15 * GetOr(norm_volume, sector, 5000), 100)]

\* the weighted average of the three normalized components, 50 for a sector
\* a component lacks
CombineMomentum(norm_returns, norm_rel_strength, norm_volume) ==
    [sector \in Sectors |->
        RoundHalfEven(50 * GetOr(norm_returns, sector, 5000)
                      + 35 * GetOr(norm_rel_strength, sector, 5000)
                      + 15 * GetOr(norm_volume, sector, 5000), 100)]

calculate_momentum_score(sector_prices) ==
    CombineMomentum(
        normalize_score_zscore(Returns12mo(calculate_price_returns(sector_prices)), TRUE),
        normalize_score_zscore(calculate_relative_strength(sector_prices), TRUE),
        normalize_score_zscore(calculate_volume_trend(sector_prices), TRUE))

(***************************************************************************)
(* 4.3 Valuation (signals.py).  A P/E is an optional number in tenths; an  *)
(* info record is a dict from field name to optional number.               *)
(***************************************************************************)
AllNeutral == [s \in Sectors |-> 5000]

\* fill in the canonical sectors a normalized mapping lacks
FillMissing(normalized, default) ==
    [s \in DOMAIN normalized \cup Sectors |-> GetOr(normalized, s, default)]

\* info.get('forward_pe')
InfoForwardPE(info) == IF "forward_pe" \in DOMAIN info THEN info["forward_pe"] ELSE None

\* faulty variant: zero and negative ratios are kept
ValidPE_anysign(sector_pe) ==
    LET ok == {s \in DOMAIN sector_pe : ~IsNone(sector_pe[s])}
    IN  [s \in ok |-> sector_pe[s][1]]

\* {s: pe for s, pe in sector_pe.items() if pe and pe > 0}
ValidPE(sector_pe) ==
    LET ok == {s \in DOMAIN sector_pe : ~IsNone(sector_pe[s]) /\ sector_pe[s][1] > 0}
    IN  [s \in ok |-> sector_pe[s][1]]

\* faulty variant: the P/E ratios are normalized higher-is-better
calculate_valuation_score_hib(sector_pe, sector_info) ==
    IF DOMAIN sector_pe = {} /\ DOMAIN sector_info = {} THEN AllNeutral
    ELSE LET pe == IF DOMAIN sector_pe = {}
                   THEN Restrict(
                          [s \in DOMAIN sector_info |-> InfoForwardPE(sector_info[s])],
                          {s \in DOMAIN sector_info :
                              ~IsNone(InfoForwardPE(sector_info[s]))})
                   ELSE sector_pe
             valid_pe == ValidPE(pe)
         IN  IF DOMAIN valid_pe = {} THEN AllNeutral
             ELSE FillMissing(normalize_score_zscore(valid_pe, TRUE), 5000)

calculate_valuation_score(sector_pe, sector_info) ==
    IF DOMAIN sector_pe = {} /\ DOMAIN sector_info = {} THEN AllNeutral
    ELSE LET pe == IF DOMAIN sector_pe = {}
                   THEN Restrict(
                          [s \in DOMAIN sector_info |-> InfoForwardPE(sector_info[s])],
                          {s \in DOMAIN sector_info :
                              ~IsNone(InfoForwardPE(sector_info[s]))})
                   ELSE sector_pe
             valid_pe == ValidPE(pe)
         IN  IF DOMAIN valid_pe = {} THEN AllNeutral
             ELSE FillMissing(normalize_score_zscore(valid_pe, FALSE), 5000)

(***************************************************************************)
(* 4.4 Growth (signals.py)                                                 *)
(***************************************************************************)
\* series.iloc[-k] of a monthly series
SeriesIloc(series, k) == series[Len(series) - k + 1]

calculate_employment_growth(employment_data) ==
    LET kept == {s \in DOMAIN employment_data :
                    /\ ~IsNone(employment_data[s])
                    /\ Len(employment_data[s][1]) >= 13
                    /\ SeriesIloc(employment_data[s][1], 13) > 0}
    IN  [s \in kept |->
            LET series   == employment_data[s][1]
                current  == SeriesIloc(series, 1)
                year_ago == SeriesIloc(series, 13)
            IN  ((current - year_ago) * 1000) \div year_ago]

calculate_growth_score(employment_data) ==
    LET employment_growth == calculate_employment_growth(employment_data)
    IN  IF DOMAIN employment_growth = {} THEN AllNeutral
        ELSE FillMissing(normalize_score_zscore(employment_growth, TRUE), 5000)

(***************************************************************************)
(* 4.5 Innovation (signals.py)                                             *)
(***************************************************************************)
ValidRD(rd_data) == Restrict(rd_data, {s \in DOMAIN rd_data : rd_data[s] > 0})

\* faulty variant: sectors without a valid R&D figure get the neutral 50
calculate_innovation_score_fill50(rd_data) ==
    IF DOMAIN rd_data = {} THEN AllNeutral
    ELSE LET valid_rd == ValidRD(rd_data)
         IN  IF DOMAIN valid_rd = {} THEN AllNeutral
             ELSE FillMissing(normalize_score_zscore(valid_rd, TRUE), 5000)

calculate_innovation_score(rd_data) ==
    IF DOMAIN rd_data = {} THEN AllNeutral
    ELSE LET valid_rd == ValidRD(rd_data)
         IN  IF DOMAIN valid_rd = {} THEN AllNeutral
             ELSE FillMissing(normalize_score_zscore(valid_rd, TRUE), 3000)

(***************************************************************************)
(* 4.6 Macro sensitivity (signals.py)                                      *)
(***************************************************************************)
\* x.resample('ME').last().pct_change().dropna() of month-end levels:
\* entry j is the change into month j + 1, in percent
PctChange(levels) ==
    [j \in 1..(Len(levels) - 1) |->
        ((levels[j + 1] - levels[j]) * 100) \div levels[j]]

\* the last k entries
LastK(seq, k) == [j \in 1..k |-> seq[Len(seq) - k + j]]

RECURSIVE SeqSum(_, _)
SeqSum(f, k) == IF k = 0 THEN 0 ELSE f[k] + SeqSum(f, k - 1)

\* stats.pearsonr(x, y)[0] in thousandths (x, y of equal length, neither
\* constant): Sxy / sqrt(Sxx * Syy), roots taken to two decimals
PearsonR(x, y) ==
    LET k   == Len(x)
        sx  == SeqSum(x, k)
        sy  == SeqSum(y, k)
        Sxy == k * SeqSum([j \in 1..k |-> x[j] * y[j]], k) - sx * sy
        Sxx == k * SeqSum([j \in 1..k |-> x[j] * x[j]], k) - sx * sx
        Syy == k * SeqSum([j \in 1..k |-> y[j] * y[j]], k) - sy * sy
        den == (ISqrt(100 * Sxx) * ISqrt(100 * Syy)) \div 100
    IN  Sgn(Sxy) * ((Abs(Sxy) * 1000) \div den)

\* interest_rates: an optional monthly series
calculate_rate_sensitivity(sector_prices, interest_rates) ==
    IF IsNone(interest_rates) \/ Len(interest_rates[1]) = 0 THEN EmptyMap
    ELSE LET rate_changes == PctChange(interest_rates[1])
             Common(s) ==
                 LET df == sector_prices[s][1]
                     m  == MonthsOf(df.rows) - 1
                 IN  IF m < Len(rate_changes) THEN m ELSE Len(rate_changes)
             kept == {s \in Usable(sector_prices) :
                         /\ ~IsNone(CloseColumn(sector_prices[s][1]))
                         /\ Common(s) >= 12}
         IN  [s \in kept |->
                LET df      == sector_prices[s][1]
                    returns == PctChange(df.columns[CloseColumn(df)[1]])
                IN  PearsonR(LastK(returns, Common(s)),
                             LastK(rate_changes, Common(s)))]

\* faulty variant: the correlations are normalized higher-is-better
calculate_macro_score_hib(sector_prices, macro_data) ==
    LET interest_rates   == Get(macro_data, "treasury_10y")
        rate_sensitivity == calculate_rate_sensitivity(sector_prices, interest_rates)
    IN  IF DOMAIN rate_sensitivity = {} THEN AllNeutral
        ELSE FillMissing(normalize_score_zscore(rate_sensitivity, TRUE), 5000)

calculate_macro_score(sector_prices, macro_data) ==
    LET interest_rates   == Get(macro_data, "treasury_10y")
        rate_sensitivity == calculate_rate_sensitivity(sector_prices, interest_rates)
    IN  IF DOMAIN rate_sensitivity = {} THEN AllNeutral
        ELSE FillMissing(normalize_score_zscore(rate_sensitivity, FALSE), 5000)

(***************************************************************************)
(* 4.7 Scoring orchestrator (scoring.py).  A weight vector is a dict from  *)
(* category to thousandths.                                                *)
(***************************************************************************)
Categories == {"momentum", "valuation", "growth", "innovation", "macro"}

SCORING_WEIGHTS ==
    [momentum |-> 250, valuation |-> 200, growth |-> 200,
     innovation |-> 200, macro |-> 150]

\* self.weights = weights or SCORING_WEIGHTS (None and {} are falsy)
EffectiveWeights(w) ==
    IF IsNone(w) \/ DOMAIN w[1] = {} THEN SCORING_WEIGHTS ELSE w[1]

\* the categories in the order the weight dicts are written
CategoryOrder == <<"momentum", "valuation", "growth", "innovation", "macro">>

\* sum(self.weights.values()) in binary64: the first i categories, those
\* the dict has, added left to right
RECURSIVE FloatWeightSum(_, _)
FloatWeightSum(w, i) ==
    IF i = 0 THEN <<0, 0, 0>>
    ELSE IF CategoryOrder[i] \in DOMAIN w
    THEN FloatAdd(FloatWeightSum(w, i - 1), ToDouble(w[CategoryOrder[i]]))
    ELSE FloatWeightSum(w, i - 1)

\* abs(weight_sum - 1.0) > 0.01.  Weights in 0..1.999 with a sum below 2
\* are added and compared as doubles; for any other vector the test is made
\* on the exact sum (five additions err by less than 1e-15, and such a
\* vector is drawn with a sum at least 0.001 away from 0.99 and 1.01).
WeightsRejected(w) ==
    IF (\A k \in DOMAIN w : w[k] >= 0) /\ MapSum(w) <= 1999
    THEN LET weight_sum == FloatWeightSum(w, Len(CategoryOrder))
             one        == ToDouble(1000)
             diff       == IF T3Less(weight_sum, one)
                           THEN FloatAdd(T3Sub(one, weight_sum), <<0, 0, 0>>)
                           ELSE FloatAdd(T3Sub(weight_sum, one), <<0, 0, 0>>)
         IN  T3Less(ToDouble(10), diff)
    ELSE Abs(MapSum(w) - 1000) > 10

\* data.get(key) or {}
Entry(d, key) ==
    IF key \in DOMAIN d /\ ~IsNone(d[key]) THEN d[key][1] ELSE EmptyMap

\* a or b on optional numbers: None and 0 are falsy
OrElse(a, b) == IF IsNone(a) \/ a[1] = 0 THEN b ELSE a

\* faulty variant: the macro term is left out of the weighted sum
BuildScore_nomacro(w, sector, comp, price_returns, rel_strength, employment_growth, sector_info, sector_pe, rd_data) ==
    LET momentum   == GetOr(comp.momentum, sector, 5000)
        valuation  == GetOr(comp.valuation, sector, 5000)
        growth     == GetOr(comp.growth, sector, 5000)
        innovation == GetOr(comp.innovation, sector, 5000)
        macro      == GetOr(comp.macro, sector, 5000)
        opportunity ==
            w["momentum"] * momentum + w["valuation"] * valuation
            + w["growth"] * growth + w["innovation"] * innovation
        sector_returns == GetOr(price_returns, sector, EmptyMap)
        info == GetOr(sector_info, sector, EmptyMap)
        pe   == IF sector \in DOMAIN sector_pe THEN sector_pe[sector] ELSE None
    IN  [sector            |-> sector,
         opportunity_score |-> RoundHalfEven(opportunity, 1000),
         rank              |-> 0,
         momentum_score    |-> momentum,
         valuation_score   |-> valuation,
         growth_score      |-> growth,
         innovation_score  |-> innovation,
         macro_score       |-> macro,
         price_return_3mo  |-> Get(sector_returns, "3mo"),
         price_return_6mo  |-> Get(sector_returns, "6mo"),
         price_return_12mo |-> Get(sector_returns, "12mo"),
         relative_strength |-> Get(rel_strength, sector),
         forward_pe        |-> OrElse(pe, InfoForwardPE(info)),
         employment_growth |-> Get(employment_growth, sector),
         rd_intensity      |-> Get(rd_data, sector)]

\* the SectorScore built for one sector (rank still 0); the weights have
\* all five categories
BuildScore(w, sector, comp, price_returns, rel_strength, employment_growth, sector_info, sector_pe, rd_data) ==
    LET momentum   == GetOr(comp.momentum, sector, 5000)
        valuation  == GetOr(comp.valuation, sector, 5000)
        growth     == GetOr(comp.growth, sector, 5000)
        innovation == GetOr(comp.innovation, sector, 5000)
        macro      == GetOr(comp.macro, sector, 5000)
        opportunity ==
            w["momentum"] * momentum + w["valuation"] * valuation
            + w["growth"] * growth + w["innovation"] * innovation
            + w["macro"] * macro
        sector_returns == GetOr(price_returns, sector, EmptyMap)
        info == GetOr(sector_info, sector, EmptyMap)
        pe   == IF sector \in DOMAIN sector_pe THEN sector_pe[sector] ELSE None
    IN  [sector            |-> sector,
         opportunity_score |-> RoundHalfEven(opportunity, 1000),
         rank              |-> 0,
         momentum_score    |-> momentum,
         valuation_score   |-> valuation,
         growth_score      |-> growth,
         innovation_score  |-> innovation,
         macro_score       |-> macro,
         price_return_3mo  |-> Get(sector_returns, "3mo"),
         price_return_6mo  |-> Get(sector_returns, "6mo"),
         price_return_12mo |-> Get(sector_returns, "12mo"),
         relative_strength |-> Get(rel_strength, sector),
         forward_pe        |-> OrElse(pe, InfoForwardPE(info)),
         employment_growth |-> Get(employment_growth, sector),
         rd_intensity      |-> Get(rd_data, sector)]

\* faulty variant: the sort numbers the elements as it goes, so the rank is
\* written before the ranking loop
RECURSIVE SortByScore_ranking(_)
SortByScore_ranking(list) ==
    IF list = <<>> THEN <<>>
    ELSE LET rest == SortByScore_ranking(SubSeq(list, 1, Len(list) - 1))
             x    == list[Len(list)]
             k    == Cardinality({i \in 1..Len(rest) :
                         rest[i].opportunity_score >= x.opportunity_score})
         IN  [i \in 1..Len(list) |->
                 IF i <= k THEN [rest[i] EXCEPT !.rank = i]
                 ELSE IF i = k + 1 THEN [x EXCEPT !.rank = i]
                 ELSE [rest[i - 1] EXCEPT !.rank = i]]

\* faulty variant: an unstable sort, an element goes in front of its equals
RECURSIVE InsertByScore_unstable(_, _)
InsertByScore_unstable(sorted, x) ==
    IF sorted = <<>> THEN <<x>>
    ELSE IF Head(sorted).opportunity_score > x.opportunity_score
    THEN <<Head(sorted)>> \o InsertByScore_unstable(Tail(sorted), x)
    ELSE <<x>> \o sorted

\* list.sort(key=opportunity_score, reverse=True): stable, so an element
\* goes behind every earlier element whose score is not lower
RECURSIVE InsertByScore(_, _)
InsertByScore(sorted, x) ==
    IF sorted = <<>> THEN <<x>>
    ELSE IF Head(sorted).opportunity_score >= x.opportunity_score
    THEN <<Head(sorted)>> \o InsertByScore(Tail(sorted), x)
    ELSE <<x>> \o sorted

RECURSIVE SortByScore(_)
SortByScore(list) ==
    IF list = <<>> THEN <<>>
    ELSE InsertByScore(SortByScore(SubSeq(list, 1, Len(list) - 1)), list[Len(list)])

\* faulty variant: the ranks are counted from the end of the list
AssignRanks_frombottom(list) ==
    [i \in 1..Len(list) |-> [list[i] EXCEPT !.rank = Len(list) - i + 1]]

\* for i, score in enumerate(sector_scores): score.rank = i + 1
AssignRanks(list) == [i \in 1..Len(list) |-> [list[i] EXCEPT !.rank = i]]

\* faulty variant: the loop runs over the sectors that have price data
RankedScores_onlydata(w, comp, price_returns, rel_strength, employment_growth, sector_info, sector_pe, rd_data) ==
    LET HasData(sc) == sc.sector \in DOMAIN price_returns
    IN  AssignRanks(SortByScore(SelectSeq(
            [i \in 1..Len(SECTOR_ETFS) |->
                BuildScore(w, SECTOR_ETFS[i], comp, price_returns, rel_strength,
                           employment_growth, sector_info, sector_pe, rd_data)],
            HasData)))

\* lines 132-169: one SectorScore per sector of SECTOR_ETFS, sorted, ranked
RankedScores(w, comp, price_returns, rel_strength, employment_growth, sector_info, sector_pe, rd_data) ==
    AssignRanks(SortByScore(
        [i \in 1..Len(SECTOR_ETFS) |->
            BuildScore(w, SECTOR_ETFS[i], comp, price_returns, rel_strength,
                       employment_growth, sector_info, sector_pe, rd_data)]))

\* lines 109-169 on the six extracted dicts: [err, scores]; err names the
\* exception that escapes ("none" when the list is returned)
ScoreSectors(w, sector_prices, sector_info, macro_data, sector_pe, employment_data, rd_data) ==
    IF relative_strength_raises(sector_prices)
    THEN [err |-> "TypeError", scores |-> <<>>]
    ELSE IF ~(Categories \subseteq DOMAIN w)
    THEN [err |-> "KeyError", scores |-> <<>>]
    ELSE [err |-> "none",
          scores |->
            RankedScores(
                w,
                [momentum   |-> calculate_momentum_score(sector_prices),
                 valuation  |-> calculate_valuation_score(sector_pe, sector_info),
                 growth     |-> calculate_growth_score(employment_data),
                 innovation |-> calculate_innovation_score(rd_data),
                 macro      |-> calculate_macro_score(sector_prices, macro_data)],
                calculate_price_returns(sector_prices),
                calculate_relative_strength(sector_prices),
                calculate_employment_growth(employment_data),
                sector_info, sector_pe, rd_data)]

calculate_scores(w, d) ==
    ScoreSectors(w, Entry(d, "sector_prices"), Entry(d, "sector_info"),
                 Entry(d, "macro_data"), Entry(d, "sector_pe"),
                 Entry(d, "employment_data"), Entry(d, "rd_data"))

(***************************************************************************)
(* Inputs of the scoring specification.  Three sectors carry data.         *)
(***************************************************************************)
SecA == "Health Care"

SecB == "Financials"

SecC == "Utilities"

\* 13 months of rows; 12-month return +40 %, moves against the rate
TblA ==
    [rows |-> 273,
     columns |-> [Close  |-> <<100, 100, 125, 100, 125, 100, 125, 100, 125, 100, 125, 100, 140>>,
                  Volume |-> <<10, 10, 10, 10, 10, 10, 10, 10, 10, 10, 10, 10, 20>>]]

\* 13 months of rows; 12-month return -10 %, moves with the rate
TblB ==
    [rows |-> 273,
     columns |-> [Close  |-> <<80, 100, 80, 100, 80, 100, 80, 100, 80, 100, 80, 100, 90>>,
                  Volume |-> <<20, 20, 20, 20, 20, 20, 20, 20, 20, 20, 20, 20, 10>>]]

\* the benchmark: 12-month return +10 %
TblBench ==
    [rows |-> 273,
     columns |-> [Close  |-> <<100, 100, 100, 100, 100, 100, 100, 100, 100, 100, 100, 100, 110>>,
                  Volume |-> <<50, 50, 50, 50, 50, 50, 50, 50, 50, 50, 50, 50, 50>>]]

\* 130 rows (7 months): 3- and 6-month returns only; lower-case columns
TblMid ==
    [rows |-> 130,
     columns |-> [close  |-> <<100, 100, 100, 100, 110, 110, 120>>,
                  volume |-> <<10, 10, 10, 10, 10, 10, 10>>]]

\* 30 rows: no horizon is covered
TblShort ==
    [rows |-> 30,
     columns |-> [Close |-> <<100, 105>>, Volume |-> <<10, 10>>]]

TblEmpty == [rows |-> 0, columns |-> [Close |-> <<>>, Volume |-> <<>>]]

\* exactly 12 months of rows (252), one row less, and a table that has
\* neither a 'Close' nor a 'close' column
Tbl252 ==
    [rows |-> 252,
     columns |-> [Close  |-> <<100, 100, 100, 100, 100, 100, 100, 100, 100, 100, 100, 130>>,
                  Volume |-> <<10, 10, 10, 10, 10, 10, 10, 10, 10, 10, 10, 10>>]]

Tbl251 ==
    [rows |-> 251,
     columns |-> [Close  |-> <<100, 100, 100, 100, 100, 100, 100, 100, 100, 100, 100, 130>>,
                  Volume |-> <<10, 10, 10, 10, 10, 10, 10, 10, 10, 10, 10, 10>>]]

TblNoClose ==
    [rows |-> 273,
     columns |-> [Open |-> <<100, 100, 100, 100, 100, 100, 100, 100, 100, 100, 100, 100, 120>>]]

\* the horizon boundaries: 63 and 62 rows, 126 and 125 rows
Tbl63 ==
    [rows |-> 63,
     columns |-> [Close |-> <<100, 100, 120>>, Volume |-> <<10, 10, 10>>]]

Tbl62 ==
    [rows |-> 62,
     columns |-> [Close |-> <<100, 100, 120>>, Volume |-> <<10, 10, 10>>]]

Tbl126 ==
    [rows |-> 126,
     columns |-> [Close  |-> <<100, 100, 100, 100, 100, 90>>,
                  Volume |-> <<10, 10, 10, 10, 10, 10>>]]

Tbl125 ==
    [rows |-> 125,
     columns |-> [Close  |-> <<100, 100, 100, 100, 100, 90>>,
                  Volume |-> <<10, 10, 10, 10, 10, 10>>]]

\* 13 month-end rates and a 5-month series
Rates13 == <<40, 50, 40, 50, 40, 50, 40, 50, 40, 50, 40, 50, 40>>

Rates5 == <<40, 50, 40, 50, 40>>

\* 14 monthly employment counts: +5 % and -2 % over the year; 2 counts
EmpA == <<1000, 1000, 1000, 1000, 1000, 1000, 1000, 1000, 1000, 1000, 1000, 1000, 1000, 1050>>

EmpB == <<1000, 1000, 1000, 1000, 1000, 1000, 1000, 1000, 1000, 1000, 1000, 1000, 1000, 980>>

EmpShort == <<1000, 1100>>

\* the candidates of each entry: the first is the full data set
PricesChoices ==
    << (SecA :> Some(TblA)) @@ (SecB :> Some(TblB)) @@ ("_benchmark" :> Some(TblBench)),
       (SecA :> Some(TblA)) @@ (SecB :> Some(TblB)),
       (SecA :> Some(TblA)) @@ (SecB :> Some(TblMid)) @@ (SecC :> Some(TblShort))
          @@ ("Energy" :> None) @@ ("Materials" :> Some(TblEmpty))
          @@ ("_benchmark" :> Some(TblBench)),
       (SecA :> Some(TblA)) @@ (SecB :> Some(TblB)) @@ ("_benchmark" :> Some(TblEmpty)),
       (SecA :> Some(Tbl252)) @@ (SecB :> Some(Tbl63)) @@ (SecC :> Some(Tbl62))
          @@ ("Energy" :> Some(Tbl126)) @@ ("Materials" :> Some(Tbl125))
          @@ ("_benchmark" :> Some(Tbl251)),
       (SecA :> Some(TblA)) @@ (SecB :> Some(TblB)) @@ (SecC :> Some(TblMid))
          @@ ("_benchmark" :> Some(TblBench)) >>

InfoChoices ==
    << (SecA :> [forward_pe |-> Some(120), trailing_pe |-> Some(150)])
          @@ (SecB :> [forward_pe |-> Some(280), trailing_pe |-> None]),
       (SecA :> [forward_pe |-> Some(120)]) @@ (SecB :> [forward_pe |-> None])
          @@ (SecC :> EmptyMap) >>

MacroChoices ==
    << ("treasury_10y" :> Rates13),
       ("fed_funds" :> Rates13),
       ("treasury_10y" :> <<>>),
       ("treasury_10y" :> Rates5) >>

PEChoices ==
    << (SecA :> Some(100)) @@ (SecB :> Some(300)),
       (SecA :> Some(0)) @@ (SecB :> None) @@ (SecC :> Some(-50)),
       (SecA :> Some(100)) @@ (SecB :> Some(300)) @@ (SecC :> Some(150))
          @@ ("Energy" :> None) >>

EmploymentChoices ==
    << (SecA :> Some(EmpA)) @@ (SecB :> Some(EmpB)),
       (SecA :> Some(EmpA)) @@ (SecB :> Some(EmpShort)) @@ (SecC :> None) >>

RDChoices ==
    << (SecA :> 80) @@ (SecB :> 10),
       [s \in Sectors |-> 0],
       (SecA :> 80) @@ (SecB :> 0) @@ (SecC :> -10),
       (SecB :> 10),
       [s \in Sectors \cup {"Crypto", "Space"} |-> IF s = SecA THEN 900 ELSE 10] >>

DataKeys ==
    <<"sector_prices", "sector_info", "macro_data", "sector_pe",
      "employment_data", "rd_data">>

Choices(key) ==
    CASE key = "sector_prices"   -> PricesChoices
      [] key = "sector_info"     -> InfoChoices
      [] key = "macro_data"      -> MacroChoices
      [] key = "sector_pe"       -> PEChoices
      [] key = "employment_data" -> EmploymentChoices
      [] key = "rd_data"         -> RDChoices

KeySet == {DataKeys[i] : i \in 1..Len(DataKeys)}

\* every structure whose present entries are None or the given dict
Presence ==
    UNION {[present -> {"None", "dict"}] : present \in SUBSET KeySet}

Build(shape, dicts) ==
    [k \in DOMAIN shape |-> IF shape[k] = "None" THEN None ELSE Some(dicts[k])]

FullData == [k \in KeySet |-> Choices(k)[1]]

NoData == [k \in KeySet |-> EmptyMap]

\* the full data set with one entry replaced by another candidate
Variations ==
    UNION {{[FullData EXCEPT ![k] = Choices(k)[i]] : i \in 1..Len(Choices(k))} :
              k \in KeySet}

DataInputs ==
    {Build(shape, FullData) : shape \in Presence}
    \cup {Build(shape, NoData) : shape \in Presence}
    \cup {Build([k \in KeySet |-> "dict"], v) : v \in Variations}

W5(a, b, c, d, e) ==
    [momentum |-> a, valuation |-> b, growth |-> c, innovation |-> d, macro |-> e]

EqualWeights == W5(200, 200, 200, 200, 200)

\* the weights argument of SectorScorer(): None, {} or a dict
WeightInputs ==
    { None, Some(EmptyMap), Some(EqualWeights),
      Some(W5(500, 500, 500, 0, 0)),
      Some(W5(250, 200, 200, 200, 159)), Some(W5(250, 200, 200, 200, 161)),
      Some(W5(250, 200, 200, 200, 141)), Some(W5(250, 200, 200, 200, 139)),
      Some(W5(990, 0, 0, 0, 0)), Some(W5(1010, 0, 0, 0, 0)),
      Some(W5(190, 200, 200, 200, 200)),
      Some(W5(1000, 0, 0, 0, 0)), Some(W5(0, 0, 0, 0, 0)),
      Some(W5(0, 0, 0, 1009, 0)), Some(W5(0, 0, 0, 1000, 0)),
      Some(W5(1200, -200, 0, 0, 0)),
      Some([momentum |-> 1000]) }

(***************************************************************************)
(* The scoring engine as a state machine: a SectorScorer is constructed    *)
(* with some weights argument, then calculate_scores runs on some input.   *)
(***************************************************************************)
Init ==
    /\ pc = "new"
    /\ weights = EmptyMap
    /\ data = EmptyMap
    /\ scores = <<>>
    /\ err = "none"
    /\ nvalues = EmptyMap
    /\ nhib = TRUE
    /\ nresult = EmptyMap
    /\ nphase = "off"
    /\ ReportOff /\ RunsOff /\ CacheOff /\ SignalsOff /\ MemoOff

\* SectorScorer.__init__(weights)
Construct(w) ==
    /\ pc = "new"
    /\ weights' = EffectiveWeights(w)
    /\ IF WeightsRejected(EffectiveWeights(w))
       THEN pc' = "failed" /\ err' = "ValueError"
       ELSE pc' = "ready" /\ err' = "none"
    /\ UNCHANGED <<data, scores>>
    /\ UNCHANGED <<nvars, rvars, tvars, kvars, svars, mvars>>

\* SectorScorer.calculate_scores(data)
CalculateScores(d) ==
    /\ pc = "ready"
    /\ data' = d
    /\ LET result == calculate_scores(weights, d)
       IN  /\ err' = result.err
           /\ scores' = result.scores
           /\ pc' = IF result.err = "none" THEN "scored" ELSE "raised"
    /\ UNCHANGED weights
    /\ UNCHANGED <<nvars, rvars, tvars, kvars, svars, mvars>>

Next ==
    \/ \E w \in WeightInputs : Construct(w)
    \/ \E d \in DataInputs : CalculateScores(d)

Spec == Init /\ [][Next]_vars

(***************************************************************************)
(* Claims about the scoring engine (checked under Spec)                    *)
(***************************************************************************)
\* calculate_scores was called: it returned ("scored") or raised ("raised")
Called == pc \in {"scored", "raised"}

Returned == pc = "scored"

Positions == 1..Len(scores)

\* position of a sector in the canonical enumeration
SectorIndex(s) == CHOOSE i \in 1..Len(SECTOR_ETFS) : SECTOR_ETFS[i] = s

\* the SectorScore of a sector in the returned list
ScoreOf(s) == scores[CHOOSE i \in Positions : scores[i].sector = s]

\* no input data at all: every entry is absent, None or an empty dict
NoInput(d) == \A k \in DOMAIN d : IsNone(d[k]) \/ DOMAIN d[k][1] = {}

\* C1 as stated: construction fails with ValueError exactly when the sum of
\* the supplied weights differs from 1.0 by more than 0.01, and succeeds for
\* every weight vector whose sum is within 1.0 +/- 0.01.
C1_AsStated ==
    pc # "new" => ((err = "ValueError") <=> (Abs(MapSum(weights) - 1000) > 10))

C3_RanksFollowScores ==
    Returned =>
        /\ {scores[i].rank : i \in Positions} = 1..Len(SECTOR_ETFS)
        /\ \A i \in Positions : scores[i].rank = i
        /\ \A i, j \in Positions :
             i < j =>
               /\ scores[i].opportunity_score >= scores[j].opportunity_score
               /\ scores[i].opportunity_score = scores[j].opportunity_score
                    => SectorIndex(scores[i].sector) < SectorIndex(scores[j].sector)

\* C3 witness: a returned list with a strict drop followed by a tie
C3_Witness ==
    /\ Returned
    /\ \E i \in Positions :
         /\ i + 2 \in Positions
         /\ scores[i].opportunity_score > scores[i + 1].opportunity_score
         /\ scores[i + 1].opportunity_score = scores[i + 2].opportunity_score

\* C4 as stated: once construction succeeded, calculate_scores never raises
\* and returns a complete ranked list, whatever mapping the sum check let
\* through and whichever entries are absent, None or empty.
C4_AsStated ==
    Called =>
        /\ err = "none"
        /\ Len(scores) = Len(SECTOR_ETFS)
        /\ \A i \in Positions : scores[i].rank = i

\* C5: with no input data at all every one of the five component scores of
\* every canonical sector is exactly 50.0.
C5_NoDataAllNeutral ==
    (Returned /\ NoInput(data)) =>
        \A s \in Sectors :
            /\ ScoreOf(s).momentum_score = 5000
            /\ ScoreOf(s).valuation_score = 5000
            /\ ScoreOf(s).growth_score = 5000
            /\ ScoreOf(s).innovation_score = 5000
            /\ ScoreOf(s).macro_score = 5000

\* C5 witness: a list returned for an input whose six entries are all there,
\* some None and some empty
C5_Witness ==
    /\ Returned
    /\ NoInput(data)
    /\ DOMAIN data = KeySet
    /\ \E k \in KeySet : IsNone(data[k])
    /\ \E k \in KeySet : ~IsNone(data[k])

\* C6: when some sector has an R&D ratio > 0, every canonical sector whose
\* ratio is missing or <= 0 has innovation score exactly 30.0, in the
\* calculator's mapping and in the SectorScore; when no sector has a
\* positive ratio every canonical sector has exactly 50.0.
C6_InnovationFallback ==
    Returned =>
        LET rd_data    == Entry(data, "rd_data")
            positive   == {s \in DOMAIN rd_data : rd_data[s] > 0}
            innovation == calculate_innovation_score(rd_data)
        IN  \A s \in Sectors :
                IF positive = {}
                THEN innovation[s] = 5000 /\ ScoreOf(s).innovation_score = 5000
                ELSE s \notin positive =>
                        innovation[s] = 3000 /\ ScoreOf(s).innovation_score = 3000

\* C6 witness: a list returned when one sector has a positive ratio, another
\* a ratio <= 0 and a third none
C6_Witness ==
    /\ Returned
    /\ LET rd_data == Entry(data, "rd_data")
       IN  /\ \E s \in DOMAIN rd_data : rd_data[s] > 0
           /\ \E s \in DOMAIN rd_data : rd_data[s] <= 0
           /\ \E s \in Sectors : s \notin DOMAIN rd_data

\* the weighted sum of the five component scores stored in a SectorScore
WeightedSum(sc) ==
    weights["momentum"] * sc.momentum_score
    + weights["valuation"] * sc.valuation_score
    + weights["growth"] * sc.growth_score
    + weights["innovation"] * sc.innovation_score
    + weights["macro"] * sc.macro_score

\* C9: the stored opportunity_score is the weighted sum of the five stored
\* component scores rounded to 2 decimals (it is a hundredth within half a
\* hundredth of the sum), and each stored component is the calculator's
\* value for the sector, 50.0 where the calculator's mapping lacks it.
C9_OpportunityIsWeightedSum ==
    Returned =>
        LET sector_prices == Entry(data, "sector_prices")
            momentum   == calculate_momentum_score(sector_prices)
            valuation  == calculate_valuation_score(Entry(data, "sector_pe"),
                                                    Entry(data, "sector_info"))
            growth     == calculate_growth_score(Entry(data, "employment_data"))
            innovation == calculate_innovation_score(Entry(data, "rd_data"))
            macro      == calculate_macro_score(sector_prices, Entry(data, "macro_data"))
        IN  \A s \in Sectors :
                /\ Abs(1000 * ScoreOf(s).opportunity_score - WeightedSum(ScoreOf(s))) <= 500
                /\ ScoreOf(s).momentum_score = GetOr(momentum, s, 5000)
                /\ ScoreOf(s).valuation_score = GetOr(valuation, s, 5000)
                /\ ScoreOf(s).growth_score = GetOr(growth, s, 5000)
                /\ ScoreOf(s).innovation_score = GetOr(innovation, s, 5000)
                /\ ScoreOf(s).macro_score = GetOr(macro, s, 5000)

\* C9 witness: unequal weights, unequal components, and a sum that is not a
\* whole number of hundredths
C9_Witness ==
    /\ Returned
    /\ weights["momentum"] # weights["macro"]
    /\ \E s \in Sectors :
         /\ ScoreOf(s).momentum_score # ScoreOf(s).innovation_score
         /\ WeightedSum(ScoreOf(s)) % 1000 \notin {0, 500}

\* the setting of the end-to-end example: equal weights; SecA and SecB are
\* the only sectors with data; SecA has the higher 12-month return, the lower
\* P/E, the higher employment growth, the higher R&D ratio and the lower
\* rate correlation
DominanceExample ==
    /\ Returned
    /\ weights = EqualWeights
    /\ LET sector_prices == Entry(data, "sector_prices")
           returns == calculate_price_returns(sector_prices)
           pe      == ValidPE(Entry(data, "sector_pe"))
           growth  == calculate_employment_growth(Entry(data, "employment_data"))
           rd      == ValidRD(Entry(data, "rd_data"))
           corr    == calculate_rate_sensitivity(
                          sector_prices, Get(Entry(data, "macro_data"), "treasury_10y"))
           AB      == {SecA, SecB}
       IN  /\ DOMAIN returns = AB
           /\ "12mo" \in DOMAIN returns[SecA] /\ "12mo" \in DOMAIN returns[SecB]
           /\ returns[SecA]["12mo"] > returns[SecB]["12mo"]
           /\ DOMAIN pe = AB /\ pe[SecA] < pe[SecB]
           /\ DOMAIN growth = AB /\ growth[SecA] > growth[SecB]
           /\ DOMAIN rd = AB /\ rd[SecA] > rd[SecB]
           /\ DOMAIN corr = AB /\ corr[SecA] < corr[SecB]

ComponentsExceed(a, b) ==
    /\ a.momentum_score > b.momentum_score
    /\ a.valuation_score > b.valuation_score
    /\ a.growth_score > b.growth_score
    /\ a.innovation_score > b.innovation_score
    /\ a.macro_score > b.macro_score

\* C10 as stated: in the example A has rank 1 and B rank 2, and each of A's
\* five component scores is strictly greater than B's.
C10_AsStated ==
    DominanceExample =>
        /\ ScoreOf(SecA).rank = 1
        /\ ScoreOf(SecB).rank = 2
        /\ ComponentsExceed(ScoreOf(SecA), ScoreOf(SecB))

\* C10 amended: in the example A has rank 1 and B the last rank, behind the
\* nine canonical sectors without data, and each of A's five component scores
\* is strictly greater than B's.
C10_DominantRanksFirst ==
    DominanceExample =>
        /\ ScoreOf(SecA).rank = 1
        /\ ScoreOf(SecB).rank = Len(SECTOR_ETFS)
        /\ \A s \in Sectors \ {SecA, SecB} :
             /\ ScoreOf(s).opportunity_score < ScoreOf(SecA).opportunity_score
             /\ ScoreOf(s).opportunity_score > ScoreOf(SecB).opportunity_score
        /\ ComponentsExceed(ScoreOf(SecA), ScoreOf(SecB))

\* C10 witness: the example was scored with a benchmark present
C10_Witness ==
    /\ DominanceExample
    /\ "_benchmark" \in DOMAIN Entry(data, "sector_prices")
    /\ ScoreOf(SecA).opportunity_score > ScoreOf(SecB).opportunity_score

\* the P/E ratios valuation scoring starts from: the primary mapping, or
\* the info records' forward P/E when the primary mapping is empty or None
PESource ==
    LET sector_pe   == Entry(data, "sector_pe")
        sector_info == Entry(data, "sector_info")
    IN  IF DOMAIN sector_pe # {} THEN sector_pe
        ELSE [s \in DOMAIN sector_info |-> InfoForwardPE(sector_info[s])]

PEValid == {s \in DOMAIN PESource : ~IsNone(PESource[s]) /\ PESource[s][1] > 0}

\* C18: the info records' forward P/E is used only when the primary mapping
\* is empty or None; ratios that are None, zero or negative are discarded; if
\* no valid ratio remains every canonical sector scores 50.0; otherwise a
\* strictly lower valid P/E never has the lower score and every canonical
\* sector without a valid ratio scores 50.0.
C18_ValuationScoring ==
    Returned =>
        IF PEValid = {}
        THEN \A s \in Sectors : ScoreOf(s).valuation_score = 5000
        ELSE /\ \A s \in Sectors \ PEValid : ScoreOf(s).valuation_score = 5000
             /\ \A s, t \in PEValid \cap Sectors :
                  PESource[s][1] < PESource[t][1] =>
                     ScoreOf(s).valuation_score >= ScoreOf(t).valuation_score

\* C18 witness: a primary mapping with a None entry and valid ratios, and
\* info records whose forward P/E is not what the scores follow
C18_Witness ==
    /\ Returned
    /\ DOMAIN Entry(data, "sector_pe") # {}
    /\ \E s \in DOMAIN PESource : IsNone(PESource[s])
    /\ \E s, t \in PEValid :
         /\ PESource[s][1] < PESource[t][1]
         /\ ScoreOf(s).valuation_score > ScoreOf(t).valuation_score
    /\ \E s \in PEValid :
         /\ s \in DOMAIN Entry(data, "sector_info")
         /\ InfoForwardPE(Entry(data, "sector_info")[s]) # PESource[s]

\* the three normalized components of the momentum score
MomentumParts ==
    LET sector_prices == Entry(data, "sector_prices")
    IN  [R |-> normalize_score_zscore(
                   Returns12mo(calculate_price_returns(sector_prices)), TRUE),
         S |-> normalize_score_zscore(calculate_relative_strength(sector_prices), TRUE),
         V |-> normalize_score_zscore(calculate_volume_trend(sector_prices), TRUE)]

\* C19: for every canonical sector the momentum score is 0.50*R + 0.35*S +
\* 0.15*V rounded to 2 decimals (a hundredth within half a hundredth of it),
\* R, S and V being the sector's normalized 12-month-return, relative-
\* strength and volume-trend scores, each 50 where the mapping lacks the
\* sector.
C19_MomentumCombination ==
    Returned =>
        \A s \in Sectors :
            Abs(100 * ScoreOf(s).momentum_score
                - (50 * GetOr(MomentumParts.R, s, 5000)
                   + 35 * GetOr(MomentumParts.S, s, 5000)
                   + 15 * GetOr(MomentumParts.V, s, 5000))) <= 50

\* C19 witness: a sector with a normalized return and volume trend away
\* from 50 but no relative strength, which counts as 50
C19_Witness ==
    /\ Returned
    /\ \E s \in Sectors :
         /\ s \in DOMAIN MomentumParts.R /\ MomentumParts.R[s] # 5000
         /\ s \notin DOMAIN MomentumParts.S
         /\ s \in DOMAIN MomentumParts.V /\ MomentumParts.V[s] # 5000
         /\ ScoreOf(s).momentum_score # 5000

\* number of observations of a sector's close series in the input of the
\* run, 0 when the sector has no table, a None or empty table, or a table
\* without a close column
PriceRows(s) ==
    LET sector_prices == Entry(data, "sector_prices")
    IN  IF s \notin DOMAIN sector_prices \/ IsNone(sector_prices[s]) THEN 0
        ELSE IF Empty(sector_prices[s][1]) \/ IsNone(CloseColumn(sector_prices[s][1]))
        THEN 0
        ELSE sector_prices[s][1].rows

HasHorizon(s, h) == PriceRows(s) >= 21 * h

\* the raw values the claim sends to the returns normalization: the
\* 12-month return, 0 for a sector that has some return but not that one
ClaimedRawReturns ==
    LET sector_prices == Entry(data, "sector_prices")
        some == {s \in DOMAIN sector_prices \ {"_benchmark"} : HasHorizon(s, 3)}
    IN  [s \in some |->
            IF HasHorizon(s, 12)
            THEN LET df == sector_prices[s][1]
                 IN  ((Iloc(df, CloseColumn(df)[1], 1) - Iloc(df, CloseColumn(df)[1], 252))
                        * 1000) \div Iloc(df, CloseColumn(df)[1], 252)
            ELSE 0]

\* C21: a sector has a return for horizon h in {3, 6, 12} months exactly
\* when its price series has at least 21*h observations; in the momentum
\* score a sector with some return but no 12-month return enters the
\* returns normalization with raw value 0, and a sector with no return for
\* any horizon is left out of that normalization.
C21_ReturnsPerHorizon ==
    Returned =>
        LET R == normalize_score_zscore(ClaimedRawReturns, TRUE)
        IN  /\ \A s \in Sectors :
                  /\ ~IsNone(ScoreOf(s).price_return_3mo) <=> HasHorizon(s, 3)
                  /\ ~IsNone(ScoreOf(s).price_return_6mo) <=> HasHorizon(s, 6)
                  /\ ~IsNone(ScoreOf(s).price_return_12mo) <=> HasHorizon(s, 12)
            /\ \A s \in Sectors :
                  Abs(100 * ScoreOf(s).momentum_score
                      - (50 * GetOr(R, s, 5000)
                         + 35 * GetOr(MomentumParts.S, s, 5000)
                         + 15 * GetOr(MomentumParts.V, s, 5000))) <= 50

\* C21 witness: one run with a sector of exactly 63 observations (3-month
\* return only, raw value 0, score moved off 50), one of 62 observations
\* (no return at all) and one with the 12-month return
C21_Witness ==
    /\ Returned
    /\ \E s, t, u \in Sectors :
         /\ PriceRows(s) = 63 /\ ~IsNone(ScoreOf(s).price_return_3mo)
         /\ IsNone(ScoreOf(s).price_return_12mo)
         /\ ClaimedRawReturns[s] = 0
         /\ ScoreOf(s).momentum_score # 5000
         /\ PriceRows(t) = 62 /\ IsNone(ScoreOf(t).price_return_3mo)
         /\ t \notin DOMAIN ClaimedRawReturns
         /\ PriceRows(u) = 252 /\ ~IsNone(ScoreOf(u).price_return_12mo)

\* the designated interest-rate series of the run's input, <<>> when the
\* macro data has no 'treasury_10y' entry
RateSeries ==
    LET macro_data == Entry(data, "macro_data")
    IN  IF "treasury_10y" \in DOMAIN macro_data THEN macro_data["treasury_10y"] ELSE <<>>

\* months of a sector's monthly returns that overlap the monthly rate
\* changes (both end in the current month, the first month has no change)
OverlapMonths(s) ==
    LET r == IF Len(RateSeries) = 0 THEN 0 ELSE Len(RateSeries) - 1
        m == IF PriceRows(s) = 0 THEN 0 ELSE MonthsOf(PriceRows(s)) - 1
    IN  Min2(r, m)

\* the sectors of the price dict with at least 12 overlapping months
Overlapping ==
    {s \in DOMAIN Entry(data, "sector_prices") \ {"_benchmark"} : OverlapMonths(s) >= 12}

\* correlation of a sector's monthly returns with the monthly rate changes
\* over the overlapping months
RateCorrelation(s) ==
    LET df == Entry(data, "sector_prices")[s][1]
    IN  PearsonR(LastK(PctChange(df.columns[CloseColumn(df)[1]]), OverlapMonths(s)),
                 LastK(PctChange(RateSeries), OverlapMonths(s)))

\* C22: if the interest-rate series is absent or empty, or no sector has at
\* least 12 months overlapping with it, every canonical sector's macro score
\* is exactly 50.0; otherwise, among the sectors with at least 12
\* overlapping months a strictly lower rate correlation never has the lower
\* score, and every other canonical sector scores 50.0.
C22_MacroFallback ==
    Returned =>
        IF Overlapping = {}
        THEN \A s \in Sectors : ScoreOf(s).macro_score = 5000
        ELSE /\ \A s \in Sectors \ Overlapping : ScoreOf(s).macro_score = 5000
             /\ \A s, t \in Overlapping \cap Sectors :
                  RateCorrelation(s) < RateCorrelation(t) =>
                     ScoreOf(s).macro_score >= ScoreOf(t).macro_score

\* C22 witness: two sectors with 12 overlapping months whose scores follow
\* their correlations in reverse, next to a sector that has price data but
\* too little overlap and scores 50
C22_Witness ==
    /\ Returned
    /\ \E s, t \in Overlapping \cap Sectors :
         /\ RateCorrelation(s) < RateCorrelation(t)
         /\ ScoreOf(s).macro_score > ScoreOf(t).macro_score
    /\ \E u \in Sectors \ Overlapping :
         /\ PriceRows(u) > 0
         /\ ScoreOf(u).macro_score = 5000

\* the five component scores of a SectorScore
ComponentScores(sc) ==
    {sc.momentum_score, sc.valuation_score, sc.growth_score,
     sc.innovation_score, sc.macro_score}

NonNegative(w) == \A c \in DOMAIN w : w[c] >= 0

\* C24: in every SectorScore that calculate_scores returns each of the five
\* component scores lies in [0, 100], and whenever the five weights are
\* non-negative and sum to exactly 1 the opportunity score lies in [0, 100].
\* (That weights accepted with a sum up to 1.01 can take the opportunity
\* score above 100 is the state C24_Witness describes.)
C24_ScoreBounds ==
    Returned =>
        \A i \in Positions :
            /\ \A c \in ComponentScores(scores[i]) : 0 <= c /\ c <= 10000
            /\ (NonNegative(weights) /\ MapSum(weights) = 1000) =>
                  (0 <= scores[i].opportunity_score /\ scores[i].opportunity_score <= 10000)

\* C24 witness: accepted non-negative weights with a sum above 1 and at most
\* 1.01, a component score clamped at 100, and an opportunity score above 100
C24_Witness ==
    /\ Returned
    /\ NonNegative(weights)
    /\ MapSum(weights) > 1000 /\ MapSum(weights) <= 1010
    /\ \E i \in Positions :
         /\ 10000 \in ComponentScores(scores[i])
         /\ scores[i].opportunity_score > 10000

\* each of a's five component scores is at least b's
ComponentsAtLeast(a, b) ==
    /\ a.momentum_score >= b.momentum_score
    /\ a.valuation_score >= b.valuation_score
    /\ a.growth_score >= b.growth_score
    /\ a.innovation_score >= b.innovation_score
    /\ a.macro_score >= b.macro_score

\* C26: with non-negative weights, for any two canonical sectors X and Y, if
\* each of X's five component scores is at least Y's then X's opportunity
\* score is at least Y's; and if X's opportunity score is strictly greater
\* than Y's then X's rank number is smaller than Y's.
C26_RankingMonotone ==
    (Returned /\ NonNegative(weights)) =>
        \A X, Y \in Sectors :
            /\ ComponentsAtLeast(ScoreOf(X), ScoreOf(Y)) =>
                  ScoreOf(X).opportunity_score >= ScoreOf(Y).opportunity_score
            /\ ScoreOf(X).opportunity_score > ScoreOf(Y).opportunity_score =>
                  ScoreOf(X).rank < ScoreOf(Y).rank

\* C26 witness: non-negative weights, one of them zero; X is at least Y in
\* every component, ahead in one and level in another, scores strictly
\* higher and is ranked first
C26_Witness ==
    /\ Returned /\ NonNegative(weights)
    /\ \E c \in DOMAIN weights : weights[c] = 0
    /\ \E X, Y \in Sectors :
         /\ ComponentsAtLeast(ScoreOf(X), ScoreOf(Y))
         /\ ScoreOf(X).innovation_score > ScoreOf(Y).innovation_score
         /\ ScoreOf(X).growth_score = ScoreOf(Y).growth_score
         /\ ScoreOf(X).opportunity_score > ScoreOf(Y).opportunity_score
         /\ ScoreOf(X).rank = 1 /\ ScoreOf(Y).rank > 1

Present(o) == ~IsNone(o)

\* C27: in every returned SectorScore price_return_12mo present implies
\* price_return_6mo present implies price_return_3mo present, and
\* relative_strength present implies price_return_12mo present; a sector with
\* fewer than 63 price observations has all four None.
C27_DisplayMetricsConsistent ==
    Returned =>
        \A s \in Sectors :
            LET sc == ScoreOf(s)
            IN  /\ Present(sc.price_return_12mo) => Present(sc.price_return_6mo)
                /\ Present(sc.price_return_6mo) => Present(sc.price_return_3mo)
                /\ Present(sc.relative_strength) => Present(sc.price_return_12mo)
                /\ PriceRows(s) < 63 =>
                      /\ IsNone(sc.price_return_3mo) /\ IsNone(sc.price_return_6mo)
                      /\ IsNone(sc.price_return_12mo) /\ IsNone(sc.relative_strength)

\* C27 witness: one list with a sector that has all four metrics, a sector
\* with the 3- and 6-month returns only, and a sector with fewer than 63
\* observations and none of them, the benchmark having a full year
C27_Witness ==
    /\ Returned
    /\ \E s, t, u \in Sectors :
         /\ Present(ScoreOf(s).relative_strength) /\ Present(ScoreOf(s).price_return_12mo)
         /\ Present(ScoreOf(s).price_return_6mo) /\ Present(ScoreOf(s).price_return_3mo)
         /\ Present(ScoreOf(t).price_return_6mo) /\ Present(ScoreOf(t).price_return_3mo)
         /\ IsNone(ScoreOf(t).price_return_12mo) /\ IsNone(ScoreOf(t).relative_strength)
         /\ PriceRows(u) > 0 /\ PriceRows(u) < 63
         /\ IsNone(ScoreOf(u).price_return_3mo) /\ IsNone(ScoreOf(u).relative_strength)

(***************************************************************************)
(* Specification of the normalizers as pure functions: the input mapping   *)
(* and the direction are drawn at Init, one action per normalizer.         *)
(***************************************************************************)
MaxKeys == 3

MaxRaw == 4

NormKeys == {SECTOR_ETFS[i] : i \in 1..MaxKeys}

RawValues == (-1)..MaxRaw

InitNorm ==
    /\ nvalues \in Maps(NormKeys, RawValues)
    /\ nhib \in BOOLEAN
    /\ nresult = EmptyMap
    /\ nphase = "input"
    /\ pc = "off"
    /\ weights = SCORING_WEIGHTS
    /\ data = EmptyMap
    /\ scores = <<>>
    /\ err = "none"
    /\ ReportOff /\ RunsOff /\ CacheOff /\ SignalsOff /\ MemoOff

ApplyMinMax ==
    /\ nphase = "input"
    /\ nresult' = normalize_score(nvalues, nhib)
    /\ nphase' = "minmax"
    /\ UNCHANGED <<nvalues, nhib>>
    /\ UNCHANGED <<cvars, rvars, tvars, kvars, svars, mvars>>

ApplyZScore ==
    /\ nphase = "input"
    /\ nresult' = normalize_score_zscore(nvalues, nhib)
    /\ nphase' = "zscore"
    /\ UNCHANGED <<nvalues, nhib>>
    /\ UNCHANGED <<cvars, rvars, tvars, kvars, svars, mvars>>

NextNorm == ApplyMinMax \/ ApplyZScore

SpecNorm == InitNorm /\ [][NextNorm]_vars

(***************************************************************************)
(* Claims about the normalizers (checked under SpecNorm)                   *)
(***************************************************************************)
Applied == nphase \in {"minmax", "zscore"}

DistinctValues(f) == \A j, k \in DOMAIN f : j # k => f[j] # f[k]

AllEqual(f) == \A j, k \in DOMAIN f : f[j] = f[k]

ScoreMax(f) == MapMax(f)

ScoreMin(f) == MapMin(f)

\* the result covers the input's sectors, lies in [0, 100], and orders the
\* extremes by the direction
ExtremesFollowDirection ==
    /\ DOMAIN nresult = DOMAIN nvalues
    /\ \A k \in DOMAIN nresult : nresult[k] >= 0 /\ nresult[k] <= 10000
    /\ \A k \in DOMAIN nvalues :
         /\ nvalues[k] = MapMax(nvalues) =>
              nresult[k] = (IF nhib THEN ScoreMax(nresult) ELSE ScoreMin(nresult))
         /\ nvalues[k] = MapMin(nvalues) =>
              nresult[k] = (IF nhib THEN ScoreMin(nresult) ELSE ScoreMax(nresult))

\* C7 as stated: for every non-empty mapping with distinct values both
\* normalizers give scores in [0,100] with the extremes ordered by the
\* direction, and the min-max extremes are exactly 100 and 0.
C7_AsStated ==
    (Applied /\ DOMAIN nvalues # {} /\ DistinctValues(nvalues)) =>
        /\ ExtremesFollowDirection
        /\ nphase = "minmax" =>
             (ScoreMax(nresult) = 10000 /\ ScoreMin(nresult) = 0)

\* C7 amended: as stated, but the min-max extremes are exactly 100 and 0
\* only for a mapping with at least two entries; a single entry scores 50.0.
C7_NormalizersOrderExtremes ==
    (Applied /\ DOMAIN nvalues # {} /\ DistinctValues(nvalues)) =>
        /\ ExtremesFollowDirection
        /\ nphase = "minmax" =>
             IF Cardinality(DOMAIN nvalues) >= 2
             THEN ScoreMax(nresult) = 10000 /\ ScoreMin(nresult) = 0
             ELSE \A k \in DOMAIN nresult : nresult[k] = 5000

\* C7 witness: a z-score run, lower is better, on three distinct values
C7_Witness ==
    /\ nphase = "zscore"
    /\ ~nhib
    /\ Cardinality(DOMAIN nvalues) = 3
    /\ DistinctValues(nvalues)
    /\ ScoreMax(nresult) > ScoreMin(nresult)

\* C8 as stated: a mapping whose values are all equal scores exactly 50.0
\* for every sector under both normalizers and both directions, and the empty
\* mapping gives the empty mapping.
C8_AsStated ==
    Applied =>
        /\ DOMAIN nvalues = {} => nresult = EmptyMap
        /\ AllEqual(nvalues) =>
             /\ DOMAIN nresult = DOMAIN nvalues
             /\ \A k \in DOMAIN nresult : nresult[k] = 5000

(***************************************************************************)
(* 6 The summary report (scoring.py, get_summary_report).  The report is a *)
(* dict; its timestamp entry is the wall clock at the time of the call and *)
(* is left out.                                                            *)
(***************************************************************************)
\* {'rank': s.rank, 'sector': s.sector, 'score': s.opportunity_score}
ReportEntry(s) == [rank |-> s.rank, sector |-> s.sector, score |-> s.opportunity_score]

\* scores[:3]
Top3(list) == SubSeq(list, 1, Min2(3, Len(list)))

\* faulty variant: the slice starts behind the first element
Bottom3_skipfirst(list) == SubSeq(list, Max2(2, Len(list) - 2), Len(list))

\* scores[-3:]
Bottom3(list) == SubSeq(list, Max2(1, Len(list) - 2), Len(list))

RECURSIVE SeqTotal(_, _)
SeqTotal(seq, k) == IF k = 0 THEN 0 ELSE seq[k] + SeqTotal(seq, k - 1)

SeqMaxOf(seq) == CHOOSE v \in {seq[i] : i \in 1..Len(seq)} : \A i \in 1..Len(seq) : seq[i] <= v

SeqMinOf(seq) == CHOOSE v \in {seq[i] : i \in 1..Len(seq)} : \A i \in 1..Len(seq) : seq[i] >= v

\* faulty variant: the average is taken over the first three scores
ScoreDistribution_top3(list) ==
    LET all_scores == [i \in 1..Len(list) |-> list[i].opportunity_score]
        head       == SubSeq(all_scores, 1, Min2(3, Len(list)))
    IN  [average |-> RoundHalfEven(SeqTotal(head, Len(head)), Len(head)),
         max     |-> SeqMaxOf(all_scores),
         min     |-> SeqMinOf(all_scores),
         spread  |-> SeqMaxOf(all_scores) - SeqMinOf(all_scores)]

\* mean, max, min and spread of all opportunity scores, each round(., 2)
ScoreDistribution(list) ==
    LET all_scores == [i \in 1..Len(list) |-> list[i].opportunity_score]
    IN  [average |-> RoundHalfEven(SeqTotal(all_scores, Len(list)), Len(list)),
         max     |-> SeqMaxOf(all_scores),
         min     |-> SeqMinOf(all_scores),
         spread  |-> SeqMaxOf(all_scores) - SeqMinOf(all_scores)]

\* the five tests of scores[0], in the order of the code
DriverTests(top_sector) ==
    << <<top_sector.momentum_score,   "strong momentum">>,
       <<top_sector.valuation_score,  "attractive valuation">>,
       <<top_sector.growth_score,     "employment growth">>,
       <<top_sector.innovation_score, "high R&D investment">>,
       <<top_sector.macro_score,      "favorable macro positioning">> >>

\* faulty variant: the threshold is exclusive
Strengths_exclusive(top_sector) ==
    LET passed == SelectSeq(DriverTests(top_sector), LAMBDA t : t[1] > 7000)
    IN  [i \in 1..Len(passed) |-> passed[i][2]]

\* strengths: one tag for each component of scores[0] that is >= 70
Strengths(top_sector) ==
    LET passed == SelectSeq(DriverTests(top_sector), LAMBDA t : t[1] >= 7000)
    IN  [i \in 1..Len(passed) |-> passed[i][2]]

get_summary_report(w, list) ==
    IF list = <<>> THEN [error |-> "No scores available"]
    ELSE [top_sectors        |-> [i \in 1..Len(Top3(list)) |-> ReportEntry(Top3(list)[i])],
          bottom_sectors     |-> [i \in 1..Len(Bottom3(list)) |-> ReportEntry(Bottom3(list)[i])],
          score_distribution |-> ScoreDistribution(list),
          top_sector_drivers |-> Strengths(list[1]),
          weights_used       |-> w]

(***************************************************************************)
(* Specification of get_summary_report: the list is drawn at Init, from    *)
(* the prefixes (and the last element alone) of lists that the sort-and-   *)
(* rank step of calculate_scores produced.  SecA's five components sit on  *)
(* either side of the driver threshold.                                    *)
(***************************************************************************)
CompOf(a, b) == [c \in Categories |-> (SecA :> a[c]) @@ (SecB :> b[c])]

\* the other sector: weak throughout, strong throughout, strong in momentum only
OtherComponents ==
    { [c \in Categories |-> 3000], [c \in Categories |-> 9000],
      [c \in Categories |-> IF c = "momentum" THEN 9000 ELSE 0] }

SyntheticLists ==
    { RankedScores(EqualWeights, CompOf(a, b), EmptyMap, EmptyMap, EmptyMap,
                   EmptyMap, EmptyMap, EmptyMap) :
        a \in [Categories -> {6999, 7000}], b \in OtherComponents }

ScoredLists ==
    { calculate_scores(EqualWeights, Build([k \in KeySet |-> "dict"], d)).scores :
        d \in {FullData, NoData} }

Cuts(full) ==
    {SubSeq(full, 1, n) : n \in 0..Len(full)} \cup {<<full[Len(full)]>>}

ReportLists == UNION {Cuts(l) : l \in SyntheticLists \cup ScoredLists}

InitReport ==
    /\ pc = "list"
    /\ weights \in {SCORING_WEIGHTS, EqualWeights}
    /\ data = EmptyMap
    /\ scores \in ReportLists
    /\ err = "none"
    /\ report = EmptyMap
    /\ NormOff /\ RunsOff /\ CacheOff /\ SignalsOff /\ MemoOff

\* scorer.get_summary_report(scores)
SummaryReport ==
    /\ pc = "list"
    /\ report' = get_summary_report(weights, scores)
    /\ pc' = "reported"
    /\ UNCHANGED <<weights, data, scores, err>>
    /\ UNCHANGED <<nvars, tvars, kvars, svars, mvars>>

NextReport == SummaryReport

SpecReport == InitReport /\ [][NextReport]_vars

(***************************************************************************)
(* Claims about the summary report (checked under SpecReport)              *)
(***************************************************************************)
Reported == pc = "reported"

FullReportKeys ==
    {"top_sectors", "bottom_sectors", "score_distribution",
     "top_sector_drivers", "weights_used"}

\* the list is one calculate_scores can return or a prefix of one: position
\* i holds rank i
RankedInPlace == scores # <<>> /\ \A i \in Positions : scores[i].rank = i

\* C11: get_summary_report on the empty list returns a record with an
\* 'error' entry and no rankings, and on a list of one SectorScore a full
\* report whose top_sectors and bottom_sectors both hold that one sector.
C11_ShortLists ==
    Reported =>
        /\ scores = <<>> =>
             /\ "error" \in DOMAIN report
             /\ DOMAIN report \cap FullReportKeys = {}
        /\ Len(scores) = 1 =>
             /\ DOMAIN report = FullReportKeys
             /\ report.top_sectors = <<ReportEntry(scores[1])>>
             /\ report.bottom_sectors = <<ReportEntry(scores[1])>>

\* C11 witness: a report on a single SectorScore, one that is not of rank 1
C11_Witness ==
    /\ Reported
    /\ Len(scores) = 1
    /\ scores[1].rank # 1
    /\ "top_sectors" \in DOMAIN report

\* C12: for a non-empty ranked list top_sectors are the (up to 3) sectors of
\* lowest rank in rank order, bottom_sectors the (up to 3) sectors of highest
\* rank, and score_distribution holds the mean (to the nearest hundredth),
\* the maximum, the minimum and their difference over all opportunity
\* scores, so that min <= average <= max and spread >= 0.
C12_TopBottomDistribution ==
    (Reported /\ RankedInPlace) =>
        LET n    == Len(scores)
            top  == report.top_sectors
            bot  == report.bottom_sectors
            dist == report.score_distribution
            opp  == {scores[i].opportunity_score : i \in Positions}
            sum  == SumOver([i \in Positions |-> scores[i].opportunity_score], Positions)
        IN  /\ Len(top) = Min2(3, n)
            /\ \A i \in 1..Len(top) : top[i] = ReportEntry(scores[i]) /\ top[i].rank = i
            /\ Len(bot) = Min2(3, n)
            /\ \A i \in 1..Len(bot) :
                 /\ bot[i] = ReportEntry(scores[n - Len(bot) + i])
                 /\ bot[i].rank = n - Len(bot) + i
            /\ dist.max \in opp /\ \A v \in opp : v <= dist.max
            /\ dist.min \in opp /\ \A v \in opp : v >= dist.min
            /\ dist.spread = dist.max - dist.min
            /\ 2 * Abs(n * dist.average - sum) <= n
            /\ dist.min <= dist.average /\ dist.average <= dist.max
            /\ dist.spread >= 0

\* C12 witness: a report on a full list with three different scores, a mean
\* that is not a whole number of hundredths, and separate top and bottom
C12_Witness ==
    /\ Reported
    /\ Len(scores) = Len(SECTOR_ETFS)
    /\ RankedInPlace
    /\ Cardinality({scores[i].opportunity_score : i \in Positions}) >= 3
    /\ SumOver([i \in Positions |-> scores[i].opportunity_score], Positions)
          % Len(scores) # 0
    /\ report.top_sectors[3].rank < report.bottom_sectors[1].rank

DriverTag ==
    [momentum   |-> "strong momentum",
     valuation  |-> "attractive valuation",
     growth     |-> "employment growth",
     innovation |-> "high R&D investment",
     macro      |-> "favorable macro positioning"]

ComponentsOf(sc) ==
    [momentum   |-> sc.momentum_score,
     valuation  |-> sc.valuation_score,
     growth     |-> sc.growth_score,
     innovation |-> sc.innovation_score,
     macro      |-> sc.macro_score]

CategoryIndex(c) == CHOOSE i \in 1..Len(CategoryOrder) : CategoryOrder[i] = c

\* C13: the driver tags come from the rank-1 sector alone: each of its five
\* components that is >= 70 gives exactly one fixed tag, a component < 70
\* none, in the order momentum, valuation, growth, innovation, macro.
C13_DriversOfTopSector ==
    (Reported /\ RankedInPlace) =>
        LET top     == scores[CHOOSE i \in Positions : scores[i].rank = 1]
            drivers == report.top_sector_drivers
            tagged  == {c \in Categories : ComponentsOf(top)[c] >= 7000}
        IN  /\ Len(drivers) = Cardinality(tagged)
            /\ \A c \in tagged : \E i \in 1..Len(drivers) : drivers[i] = DriverTag[c]
            /\ \A i \in 1..Len(drivers) : \E c \in tagged : drivers[i] = DriverTag[c]
            /\ \A i, j \in 1..Len(drivers) :
                 i < j =>
                   \E c, d \in tagged :
                      /\ drivers[i] = DriverTag[c] /\ drivers[j] = DriverTag[d]
                      /\ CategoryIndex(c) < CategoryIndex(d)

\* C13 witness: the rank-1 sector has a component of exactly 70 and one just
\* below, and another sector is >= 70 in a component where the first is not
C13_Witness ==
    /\ Reported
    /\ RankedInPlace
    /\ Len(scores) >= 2
    /\ \E c \in Categories : ComponentsOf(scores[1])[c] = 7000
    /\ \E c \in Categories :
         /\ ComponentsOf(scores[1])[c] = 6999
         /\ \E i \in Positions : i > 1 /\ ComponentsOf(scores[i])[c] >= 7000
         /\ \A k \in 1..Len(report.top_sector_drivers) :
               report.top_sector_drivers[k] # DriverTag[c]

(***************************************************************************)
(* 7 Concurrent scoring runs.  Two scorers with different weights run      *)
(* calculate_scores on the same input structure; a step of a run is one    *)
(* block of the method (lines 102-107, 110-114, 117-119, 122-162, 165,     *)
(* 166-167, 169) and the steps of the two runs interleave freely.  What a  *)
(* run computes it keeps in the local variables of its own call; the input *)
(* structure and the scorer's weights are only read.                       *)
(***************************************************************************)
Runs == {1, 2}

EmptyFrame ==
    [inputs |-> EmptyMap, comp |-> EmptyMap, metrics |-> EmptyMap, sector_scores |-> <<>>]

\* faulty variant: the calls keep their local variables in one shared place
Frame_shared(r) == 1

\* the frame that holds the local variables of run r: each call has its own
Frame(r) == r

RunWeights == {EqualWeights, SCORING_WEIGHTS, W5(500, 500, 0, 0, 0)}

RunData ==
    { Build([k \in KeySet |-> "dict"], v) :
        v \in {FullData, NoData,
               [FullData EXCEPT !["sector_prices"] = PricesChoices[3]],
               [FullData EXCEPT !["sector_pe"] = PEChoices[3]]} }

InitRuns ==
    /\ data \in RunData
    /\ frames = [f \in Runs |-> EmptyFrame]
    /\ \E w1, w2 \in RunWeights :
         /\ w1 # w2
         /\ rpc = (1 :> [at |-> "start", weights |-> w1, result |-> <<>>, report |-> EmptyMap])
                  @@ (2 :> [at |-> "start", weights |-> w2, result |-> <<>>, report |-> EmptyMap])
    /\ pc = "off" /\ weights = EmptyMap /\ scores = <<>> /\ err = "none"
    /\ NormOff /\ ReportOff /\ CacheOff /\ SignalsOff /\ MemoOff

Local(r) == frames[Frame(r)]

\* run r moves from one block to the next, leaving `upd` in its frame
RunStep(r, from, to, upd) ==
    /\ rpc[r].at = from
    /\ frames' = [frames EXCEPT ![Frame(r)] = upd]
    /\ rpc' = [rpc EXCEPT ![r].at = to]
    /\ UNCHANGED <<cvars, nvars, rvars, kvars, svars, mvars>>

\* lines 102-107
RunExtract(r) ==
    RunStep(r, "start", "extracted",
            [Local(r) EXCEPT !.inputs = [k \in KeySet |-> Entry(data, k)]])

\* lines 110-114
RunComponents(r) ==
    RunStep(r, "extracted", "components",
            [Local(r) EXCEPT !.comp =
                [momentum   |-> calculate_momentum_score(Local(r).inputs.sector_prices),
                 valuation  |-> calculate_valuation_score(Local(r).inputs.sector_pe,
                                                          Local(r).inputs.sector_info),
                 growth     |-> calculate_growth_score(Local(r).inputs.employment_data),
                 innovation |-> calculate_innovation_score(Local(r).inputs.rd_data),
                 macro      |-> calculate_macro_score(Local(r).inputs.sector_prices,
                                                      Local(r).inputs.macro_data)]])

\* lines 117-119
RunMetrics(r) ==
    RunStep(r, "components", "metrics",
            [Local(r) EXCEPT !.metrics =
                [price_returns     |-> calculate_price_returns(Local(r).inputs.sector_prices),
                 rel_strength      |-> calculate_relative_strength(Local(r).inputs.sector_prices),
                 employment_growth |-> calculate_employment_growth(Local(r).inputs.employment_data)]])

\* lines 122-162
RunBuild(r) ==
    RunStep(r, "metrics", "built",
            [Local(r) EXCEPT !.sector_scores =
                [i \in 1..Len(SECTOR_ETFS) |->
                    BuildScore(rpc[r].weights, SECTOR_ETFS[i], Local(r).comp,
                               Local(r).metrics.price_returns,
                               Local(r).metrics.rel_strength,
                               Local(r).metrics.employment_growth,
                               Local(r).inputs.sector_info,
                               Local(r).inputs.sector_pe,
                               Local(r).inputs.rd_data)]])

\* line 165
RunSort(r) ==
    RunStep(r, "built", "sorted",
            [Local(r) EXCEPT !.sector_scores = SortByScore(Local(r).sector_scores)])

\* lines 166-167
RunRank(r) ==
    RunStep(r, "sorted", "ranked",
            [Local(r) EXCEPT !.sector_scores = AssignRanks(Local(r).sector_scores)])

\* line 169
RunReturn(r) ==
    /\ rpc[r].at = "ranked"
    /\ rpc' = [rpc EXCEPT ![r].at = "done", ![r].result = Local(r).sector_scores]
    /\ UNCHANGED frames
    /\ UNCHANGED <<cvars, nvars, rvars, kvars, svars, mvars>>

\* scorer.get_summary_report(scores) on the list the run returned
RunReport(r) ==
    /\ rpc[r].at = "done"
    /\ rpc' = [rpc EXCEPT ![r].at = "reported",
                           ![r].report = get_summary_report(rpc[r].weights, rpc[r].result)]
    /\ UNCHANGED frames
    /\ UNCHANGED <<cvars, nvars, rvars, kvars, svars, mvars>>

NextRuns ==
    \/ \E r \in Runs : RunReport(r)
    \/ \E r \in Runs : RunExtract(r)
    \/ \E r \in Runs : RunComponents(r)
    \/ \E r \in Runs : RunMetrics(r)
    \/ \E r \in Runs : RunBuild(r)
    \/ \E r \in Runs : RunSort(r)
    \/ \E r \in Runs : RunRank(r)
    \/ \E r \in Runs : RunReturn(r)

SpecRuns == InitRuns /\ [][NextRuns]_vars

(***************************************************************************)
(* Claims about concurrent runs (checked under SpecRuns)                   *)
(***************************************************************************)
\* C14: when two calculate_scores runs on scorers with different weights
\* over the same input are interleaved in any order, each returns exactly
\* the scores and ranks it returns when run alone.
C14_RunsDoNotInterfere ==
    \A r \in Runs :
        rpc[r].at = "done" =>
            rpc[r].result = calculate_scores(rpc[r].weights, data).scores

\* C14 witness: both runs returned, with different opportunity scores for
\* the same sector
C14_Witness ==
    /\ \A r \in Runs : rpc[r].at = "done"
    /\ \E i, j \in 1..Len(SECTOR_ETFS) :
         /\ rpc[1].result[i].sector = rpc[2].result[j].sector
         /\ rpc[1].result[i].opportunity_score # rpc[2].result[j].opportunity_score
    /\ rpc[1].result # rpc[2].result

\* the rank field of the SectorScore of sector s in the list of run r; -1
\* while the run has not built it
RankIn(fr, s) ==
    LET at == {i \in 1..Len(fr.sector_scores) : fr.sector_scores[i].sector = s}
    IN  IF at = {} THEN -1 ELSE fr.sector_scores[CHOOSE i \in at : TRUE].rank

\* the SectorScore of sector s in a list, with every field
ObjectIn(list, s) == list[CHOOSE i \in 1..Len(list) : list[i].sector = s]

\* C23: no step of calculate_scores changes the input structure or the
\* scorer's weight vector; get_summary_report leaves the score list and
\* every SectorScore in it as they were; the rank of a SectorScore changes
\* in one step only, the ranking loop of calculate_scores, which takes it
\* from its initial 0 to the final rank.
C23_NothingMutated ==
    [][ /\ data' = data
        /\ \A r \in Runs :
             /\ rpc'[r].weights = rpc[r].weights
             /\ rpc[r].at \in {"done", "reported"} =>
                   /\ rpc'[r].result = rpc[r].result
                   /\ frames'[r].sector_scores = frames[r].sector_scores
                   /\ \A s \in Sectors : RankIn(frames[r], s) = ObjectIn(rpc[r].result, s).rank
                   /\ \A s \in Sectors : ObjectIn(rpc[r].result, s).rank >= 1
             /\ \A s \in Sectors :
                   (RankIn(frames[r], s) >= 0 /\ RankIn(frames'[r], s) # RankIn(frames[r], s)) =>
                      /\ rpc[r].at = "sorted" /\ rpc'[r].at = "ranked"
                      /\ RankIn(frames[r], s) = 0
                      /\ RankIn(frames'[r], s) >= 1 ]_vars

\* C23 witness: both runs have returned and reported; the reports are full
\* reports and the lists still carry the ranks 1..n in place
C23_Witness ==
    \A r \in Runs :
        /\ rpc[r].at = "reported"
        /\ "top_sectors" \in DOMAIN rpc[r].report
        /\ rpc[r].result = frames[r].sector_scores
        /\ \A i \in 1..Len(rpc[r].result) : rpc[r].result[i].rank = i
        /\ data \in RunData

(***************************************************************************)
(* 8 The response cache (data/cache_manager.py).  The cache directory is   *)
(* a function from cache key to file; a file has the JSON document that    *)
(* was written (or is corrupt, after a dump that failed half way) and its  *)
(* modification time.  The clock counts hours.                             *)
(*   Python values: [kind |-> "dict", keys |-> "str" / "int", body |-> f], *)
(*   f from the keys as written to the values; [kind |-> "list" / "tuple", *)
(*   body |-> seq]; a DataFrame [kind |-> "frame", index |-> the kind of   *)
(*   its index, columns |-> f]; and a datetime, which json cannot          *)
(*   serialize.                                                            *)
(*   JSON documents: [json |-> "object", body |-> f] with str keys and     *)
(*   [json |-> "array", body |-> seq].                                     *)
(***************************************************************************)
CACHE_DURATION_HOURS == 12

PyStrDict == [kind |-> "dict", keys |-> "str", body |-> ("7" :> 10)]

PyIntDict == [kind |-> "dict", keys |-> "int", body |-> ("7" :> 10)]

PyTuple == [kind |-> "tuple", body |-> <<10, 20>>]

PyFrameDates ==
    [kind |-> "frame", index |-> "DatetimeIndex", columns |-> ("Close" :> <<10, 20>>)]

PyDatetime == [kind |-> "datetime"]

\* json.dump(value): the document written, None when the value cannot be
\* serialized (TypeError).  An int key is written as a string, a tuple as an
\* array.
JsonDump(v) ==
    CASE v.kind = "dict"  -> Some([json |-> "object", body |-> v.body])
      [] v.kind \in {"list", "tuple"} -> Some([json |-> "array", body |-> v.body])
      [] OTHER -> None

\* json.load(document): an object comes back as a dict with str keys, an
\* array as a list
JsonLoad(doc) ==
    IF doc.json = "object" THEN [kind |-> "dict", keys |-> "str", body |-> doc.body]
    ELSE [kind |-> "list", body |-> doc.body]

\* DataFrame.to_dict(orient='list'): column -> list of values; the index is
\* not part of it
ToDictList(df) ==
    [kind |-> "dict", keys |-> "str", body |-> df.columns]

\* pd.DataFrame(dict of lists): the columns with a fresh RangeIndex
FrameOfDict(doc) ==
    [kind |-> "frame", index |-> "RangeIndex", columns |-> doc.body]

\* md5 of "source:json(params)", taken to be free of collisions
generate_cache_key(source, params) == [source |-> source, params |-> params]

\* the file exists and now < mtime + CACHE_DURATION_HOURS
is_cache_valid(dir, key, clock) ==
    key \in DOMAIN dir /\ clock < dir[key].mtime + CACHE_DURATION_HOURS

\* the value get_cached_data returns: Some(data), or None when there is no
\* valid file or reading it fails
get_cached_data(dir, clock, source, params) ==
    LET key == generate_cache_key(source, params)
    IN  IF ~is_cache_valid(dir, key, clock) THEN None
        ELSE IF dir[key].content.type = "corrupt" THEN None
        ELSE IF dir[key].content.type = "dataframe"
        THEN Some(FrameOfDict(dir[key].content.data))
        ELSE Some(JsonLoad(dir[key].content.data))

\* the document save_to_cache dumps: the cache record around the data
CacheRecord(v) ==
    IF v.kind = "frame"
    THEN [type |-> "dataframe", data |-> JsonDump(ToDictList(v))]
    ELSE [type |-> "standard", data |-> JsonDump(v)]

\* the file save_to_cache leaves: open(.., 'w') truncates it, and a dump
\* that raises leaves an incomplete document behind.  `saved` remembers the
\* value that was handed in (bookkeeping for the claims, not on disk).
FileWritten(v, clock) ==
    [content |-> IF IsNone(CacheRecord(v).data) THEN [type |-> "corrupt"]
                 ELSE [type |-> CacheRecord(v).type, data |-> CacheRecord(v).data[1]],
     mtime   |-> clock,
     saved   |-> v]

(***************************************************************************)
(* Specification of the cache: saves, reads and clears in any order while  *)
(* the clock advances.                                                     *)
(***************************************************************************)
MaxClock == 12

MaxFiles == 2

ClockStep == 4

CacheSources == {"fred", "yfinance"}

CacheParams == {[series |-> "DGS10"], [type |-> "sector_prices"]}

CacheValues == {PyStrDict, PyIntDict, PyTuple, PyFrameDates, PyDatetime}

InitCache ==
    /\ files = EmptyMap
    /\ now = 0
    /\ ret = [op |-> "none"]
    /\ pc = "off" /\ weights = EmptyMap /\ data = EmptyMap /\ scores = <<>> /\ err = "none"
    /\ NormOff /\ ReportOff /\ RunsOff /\ SignalsOff /\ MemoOff

Tick ==
    /\ now + ClockStep <= MaxClock
    /\ now' = now + ClockStep
    /\ ret' = [op |-> "tick"]
    /\ UNCHANGED files
    /\ UNCHANGED <<cvars, nvars, rvars, tvars, svars, mvars>>

\* save_to_cache(source, params, data)
SaveToCache(source, params, v) ==
    LET key == generate_cache_key(source, params)
    IN  /\ key \in DOMAIN files \/ Cardinality(DOMAIN files) < MaxFiles
        /\ files' = [k \in DOMAIN files \cup {key} |->
                        IF k = key THEN FileWritten(v, now) ELSE files[k]]
        /\ ret' = [op |-> "save", ok |-> ~IsNone(CacheRecord(v).data)]
        /\ UNCHANGED now
        /\ UNCHANGED <<cvars, nvars, rvars, tvars, svars, mvars>>

\* get_cached_data(source, params)
GetCachedData(source, params) ==
    /\ ret' = [op |-> "get", source |-> source, params |-> params,
               value |-> get_cached_data(files, now, source, params)]
    /\ UNCHANGED <<files, now>>
    /\ UNCHANGED <<cvars, nvars, rvars, tvars, svars, mvars>>

\* clear_cache(source): every *.json file is unlinked, whichever branch is
\* taken (lines 147-154); `before` remembers the files that were there
ClearCache(source) ==
    /\ files' = EmptyMap
    /\ ret' = [op |-> "clear", source |-> source,
               deleted |-> Cardinality(DOMAIN files), before |-> DOMAIN files]
    /\ UNCHANGED now
    /\ UNCHANGED <<cvars, nvars, rvars, tvars, svars, mvars>>

NextCache ==
    \/ Tick
    \/ \E s \in CacheSources, p \in CacheParams, v \in CacheValues : SaveToCache(s, p, v)
    \/ \E s \in CacheSources, p \in CacheParams : GetCachedData(s, p)
    \/ \E s \in {None} \cup {Some(x) : x \in CacheSources} : ClearCache(s)

SpecCache == InitCache /\ [][NextCache]_vars

(***************************************************************************)
(* Claims about the cache (checked under SpecCache)                        *)
(***************************************************************************)
\* C15 as stated: clear_cache(source) deletes only the entries saved for
\* that source and leaves every other source's entries in place,
\* clear_cache() deletes all entries, and the number returned is the number
\* of entries deleted.
C15_AsStated ==
    ret.op = "clear" =>
        /\ DOMAIN files =
             (IF IsNone(ret.source) THEN {}
              ELSE {k \in ret.before : k.source # ret.source[1]})
        /\ ret.deleted = Cardinality(ret.before \ DOMAIN files)

\* C16 as stated: get_cached_data(source, params) returns the data that was
\* saved for (source, params) while less than 12 hours have passed since the
\* save, and None once 12 hours have passed or when nothing was saved.  (A
\* save that failed is not a save: nothing is said about its entry.)
C16_AsStated ==
    ret.op = "get" =>
        LET key == generate_cache_key(ret.source, ret.params)
        IN  IF key \notin DOMAIN files THEN ret.value = None
            ELSE IF files[key].content.type = "corrupt" THEN TRUE
            ELSE ret.value =
                   (IF now < files[key].mtime + 12 THEN Some(files[key].saved) ELSE None)

(***************************************************************************)
(* 9 Specification of the raw signal functions as pure functions           *)
(* (signals.py): the argument is drawn at Init, one action per function.   *)
(***************************************************************************)
\* an entry of a dict that may be absent: <<>> absent, <<v>> present with v
DictOf(entries) ==
    [k \in {j \in DOMAIN entries : entries[j] # <<>>} |-> entries[k][1]]

PriceInputs ==
    { DictOf([b |-> bench, a |-> ta, c |-> tb]) @@ EmptyMap :
        bench \in {<<>>, <<None>>, <<Some(TblEmpty)>>, <<Some(Tbl251)>>,
                   <<Some(Tbl252)>>, <<Some(TblBench)>>, <<Some(TblNoClose)>>},
        ta    \in {<<>>, <<None>>, <<Some(TblEmpty)>>, <<Some(TblA)>>, <<Some(Tbl252)>>,
                   <<Some(Tbl251)>>, <<Some(TblMid)>>, <<Some(TblNoClose)>>},
        tb    \in {<<>>, <<Some(TblB)>>} }

\* the keys of a price dict: b is the benchmark, a and c two sectors
PriceKey(k) == IF k = "b" THEN "_benchmark" ELSE IF k = "a" THEN SecA ELSE SecB

Rekey(d) ==
    [s \in {PriceKey(k) : k \in DOMAIN d} |->
        d[CHOOSE k \in DOMAIN d : PriceKey(k) = s]]

\* employment series of 1, 2, 12 and 13 observations; one that starts at 0
Emp1 == <<1000>>

Emp12 == <<1000, 1000, 1000, 1000, 1000, 1000, 1000, 1000, 1000, 1000, 1000, 1030>>

Emp13 == <<900, 1000, 1000, 1000, 1000, 1000, 1000, 1000, 1000, 1000, 1000, 1000, 1080>>

EmpZero == <<0, 1000, 1100>>

EmploymentInputs ==
    { Rekey(DictOf([a |-> ea, c |-> eb])) :
        ea \in {<<>>, <<None>>, <<Some(<<>>)>>, <<Some(Emp1)>>, <<Some(EmpShort)>>,
                <<Some(Emp12)>>, <<Some(Emp13)>>, <<Some(EmpA)>>, <<Some(EmpZero)>>},
        eb \in {<<>>, <<Some(EmpB)>>, <<Some(Emp12)>>} }

\* the (sector_pe, sector_info) arguments of calculate_valuation_score
ValuationInputs ==
    { [sector_pe |-> pe, sector_info |-> info] :
        pe   \in {EmptyMap} \cup {PEChoices[i] : i \in 1..Len(PEChoices)},
        info \in {EmptyMap} \cup {InfoChoices[i] : i \in 1..Len(InfoChoices)} }

RDInputs == {EmptyMap} \cup {RDChoices[i] : i \in 1..Len(RDChoices)}

\* the interest_rates argument of calculate_rate_sensitivity
RateInputs == {None, Some(<<>>), Some(Rates5), Some(Rates13)}

MacroInputs == {EmptyMap} \cup {MacroChoices[i] : i \in 1..Len(MacroChoices)}

InitSignals ==
    /\ sigop = "input"
    /\ \/ sigarg \in {[kind |-> "prices", value |-> Rekey(d)] : d \in PriceInputs}
       \/ sigarg \in {[kind |-> "employment", value |-> d] : d \in EmploymentInputs}
       \/ sigarg \in {[kind |-> "valuation", value |-> d] : d \in ValuationInputs}
       \/ sigarg \in {[kind |-> "rd", value |-> d] : d \in RDInputs}
    /\ sigres = <<>>
    /\ pc = "off" /\ weights = EmptyMap /\ data = EmptyMap /\ scores = <<>> /\ err = "none"
    /\ NormOff /\ ReportOff /\ RunsOff /\ CacheOff /\ MemoOff

\* calculate_relative_strength(sector_prices)
ApplyRelativeStrength ==
    /\ sigop = "input" /\ sigarg.kind = "prices"
    /\ sigres' = IF relative_strength_raises(sigarg.value)
                 THEN [err |-> "TypeError", value |-> EmptyMap]
                 ELSE [err |-> "none", value |-> calculate_relative_strength(sigarg.value)]
    /\ sigop' = "relative_strength"
    /\ UNCHANGED sigarg
    /\ UNCHANGED <<cvars, nvars, rvars, tvars, kvars, mvars>>

\* calculate_employment_growth(employment_data)
ApplyEmploymentGrowth ==
    /\ sigop = "input" /\ sigarg.kind = "employment"
    /\ sigres' = [err |-> "none", value |-> calculate_employment_growth(sigarg.value)]
    /\ sigop' = "employment_growth"
    /\ UNCHANGED sigarg
    /\ UNCHANGED <<cvars, nvars, rvars, tvars, kvars, mvars>>

\* calculate_growth_score(employment_data)
ApplyGrowthScore ==
    /\ sigop = "input" /\ sigarg.kind = "employment"
    /\ sigres' = [err |-> "none", value |-> calculate_growth_score(sigarg.value)]
    /\ sigop' = "growth_score"
    /\ UNCHANGED sigarg
    /\ UNCHANGED <<cvars, nvars, rvars, tvars, kvars, mvars>>

\* calculate_price_returns(sector_prices)
ApplyPriceReturns ==
    /\ sigop = "input" /\ sigarg.kind = "prices"
    /\ sigres' = [err |-> "none", value |-> calculate_price_returns(sigarg.value)]
    /\ sigop' = "price_returns"
    /\ UNCHANGED sigarg
    /\ UNCHANGED <<cvars, nvars, rvars, tvars, kvars, mvars>>

\* calculate_rate_sensitivity(sector_prices, interest_rates)
ApplyRateSensitivity ==
    /\ sigop = "input" /\ sigarg.kind = "prices"
    /\ \E interest_rates \in RateInputs :
         sigres' = [err |-> "none",
                    value |-> calculate_rate_sensitivity(sigarg.value, interest_rates),
                    interest_rates |-> interest_rates]
    /\ sigop' = "rate_sensitivity"
    /\ UNCHANGED sigarg
    /\ UNCHANGED <<cvars, nvars, rvars, tvars, kvars, mvars>>

\* calculate_momentum_score(sector_prices): the exception of
\* calculate_relative_strength (line 210) escapes
ApplyMomentumScore ==
    /\ sigop = "input" /\ sigarg.kind = "prices"
    /\ sigres' = IF relative_strength_raises(sigarg.value)
                 THEN [err |-> "TypeError", value |-> EmptyMap]
                 ELSE [err |-> "none", value |-> calculate_momentum_score(sigarg.value)]
    /\ sigop' = "momentum_score"
    /\ UNCHANGED sigarg
    /\ UNCHANGED <<cvars, nvars, rvars, tvars, kvars, mvars>>

\* calculate_macro_score(sector_prices, macro_data)
ApplyMacroScore ==
    /\ sigop = "input" /\ sigarg.kind = "prices"
    /\ \E macro_data \in MacroInputs :
         sigres' = [err |-> "none",
                    value |-> calculate_macro_score(sigarg.value, macro_data),
                    macro_data |-> macro_data]
    /\ sigop' = "macro_score"
    /\ UNCHANGED sigarg
    /\ UNCHANGED <<cvars, nvars, rvars, tvars, kvars, mvars>>

\* calculate_valuation_score(sector_pe, sector_info)
ApplyValuationScore ==
    /\ sigop = "input" /\ sigarg.kind = "valuation"
    /\ sigres' = [err |-> "none",
                  value |-> calculate_valuation_score(sigarg.value.sector_pe,
                                                      sigarg.value.sector_info)]
    /\ sigop' = "valuation_score"
    /\ UNCHANGED sigarg
    /\ UNCHANGED <<cvars, nvars, rvars, tvars, kvars, mvars>>

\* calculate_innovation_score(rd_data)
ApplyInnovationScore ==
    /\ sigop = "input" /\ sigarg.kind = "rd"
    /\ sigres' = [err |-> "none", value |-> calculate_innovation_score(sigarg.value)]
    /\ sigop' = "innovation_score"
    /\ UNCHANGED sigarg
    /\ UNCHANGED <<cvars, nvars, rvars, tvars, kvars, mvars>>

NextSignals ==
    \/ ApplyRelativeStrength
    \/ ApplyEmploymentGrowth
    \/ ApplyGrowthScore
    \/ ApplyPriceReturns
    \/ ApplyRateSensitivity
    \/ ApplyMomentumScore
    \/ ApplyMacroScore
    \/ ApplyValuationScore
    \/ ApplyInnovationScore

SpecSignals == InitSignals /\ [][NextSignals]_vars

(***************************************************************************)
(* Claims about the raw signal functions (checked under SpecSignals)       *)
(***************************************************************************)
\* the employment series of a sector, <<>> when the entry is None
SeriesOf(s) == IF IsNone(sigarg.value[s]) THEN <<>> ELSE sigarg.value[s][1]

\* the observation the claim compares the latest one with: 13 periods from
\* the end, or the earliest when there are fewer than 13
BaselineOf(series) ==
    IF Len(series) >= 13 THEN series[Len(series) - 12] ELSE series[1]

\* C17 as stated: a sector whose employment series has at least 1 but fewer
\* than 13 observations gets the growth rate (latest - earliest) / earliest
\* * 100; with 13 or more the baseline is the value 13 periods from the end.
C17_AsStated ==
    sigop = "employment_growth" =>
        \A s \in DOMAIN sigarg.value :
            LET series == SeriesOf(s)
            IN  (Len(series) >= 1 /\ BaselineOf(series) > 0) =>
                   /\ s \in DOMAIN sigres.value
                   /\ sigres.value[s] =
                        ((series[Len(series)] - BaselineOf(series)) * 1000)
                            \div BaselineOf(series)

\* the close series of an entry of the price dict, None when the entry is
\* absent, None or empty or the table has no close column
CloseSeriesOf(sector_prices, key) ==
    IF key \notin DOMAIN sector_prices THEN None
    ELSE IF IsNone(sector_prices[key]) THEN None
    ELSE IF Empty(sector_prices[key][1]) THEN None
    ELSE IF IsNone(CloseColumn(sector_prices[key][1])) THEN None
    ELSE Some([df |-> sector_prices[key][1], col |-> CloseColumn(sector_prices[key][1])[1]])

\* C20 as stated: calculate_relative_strength returns the empty mapping when
\* the benchmark series is missing, empty or has fewer than 252
\* observations, and otherwise returns, for exactly the sectors with at least
\* 252 observations, the sector's trailing 12-month return minus the
\* benchmark's.
C20_AsStated ==
    sigop = "relative_strength" =>
        LET sector_prices == sigarg.value
            bench == CloseSeriesOf(sector_prices, "_benchmark")
            long  == {s \in DOMAIN sector_prices \ {"_benchmark"} :
                        /\ ~IsNone(CloseSeriesOf(sector_prices, s))
                        /\ CloseSeriesOf(sector_prices, s)[1].df.rows >= 252}
        IN  /\ sigres.err = "none"
            /\ IF IsNone(bench) \/ bench[1].df.rows < 252
               THEN sigres.value = EmptyMap
               ELSE /\ DOMAIN sigres.value = long
                    /\ \A s \in long :
                         sigres.value[s] =
                            ReturnOver(CloseSeriesOf(sector_prices, s)[1].df,
                                       CloseSeriesOf(sector_prices, s)[1].col, 252)
                            - ReturnOver(bench[1].df, bench[1].col, 252)

\* the five signal calculators
ScoreOps ==
    {"momentum_score", "valuation_score", "growth_score", "innovation_score",
     "macro_score"}

\* C25 as stated: each of the five signal calculators returns, for every
\* input, a mapping that has an entry for every canonical sector.
C25_AsStated ==
    sigop \in ScoreOps => (sigres.err = "none" /\ Sectors \subseteq DOMAIN sigres.value)

\* the price dict without the entries whose table is non-empty but has no
\* close column: what it is if those tables count as missing data
WithoutNoClose(sector_prices) ==
    Restrict(sector_prices,
             {k \in DOMAIN sector_prices :
                 \/ IsNone(sector_prices[k])
                 \/ Empty(sector_prices[k][1])
                 \/ ~IsNone(CloseColumn(sector_prices[k][1]))})

\* C30 as stated: a non-empty price table without a close column is treated
\* as missing data by calculate_price_returns, calculate_relative_strength
\* and calculate_rate_sensitivity: none of them raises, and each returns
\* what it returns for the dict without that table (the empty mapping when
\* the table is the benchmark's).
C30_AsStated ==
    /\ sigop = "price_returns" =>
          /\ sigres.err = "none"
          /\ sigres.value = calculate_price_returns(WithoutNoClose(sigarg.value))
    /\ sigop = "relative_strength" =>
          /\ sigres.err = "none"
          /\ sigres.value = calculate_relative_strength(WithoutNoClose(sigarg.value))
    /\ sigop = "rate_sensitivity" =>
          /\ sigres.err = "none"
          /\ sigres.value = calculate_rate_sensitivity(WithoutNoClose(sigarg.value),
                                                       sigres.interest_rates)

(***************************************************************************)
(* 10 The scores and cache endpoints (backend/api/routes/scores.py,        *)
(* cache.py).  Each handler is an async function without an await, so it   *)
(* runs from its first line to its last as one step.  _cached_data is the  *)
(* module's memo of the fetched data; fetch_all_data goes through the      *)
(* fetchers, each of which returns what the cache directory has if that is *)
(* still valid and otherwise asks its provider, saves the answer and       *)
(* returns it (a provider that fails gives None and nothing is saved).     *)
(* Two of the six fetchers are kept.  What a provider answers at hour t is *)
(* the dict {'asof': t}.  A weight handed to SectorScorer is the fraction  *)
(* [num, den].                                                             *)
(***************************************************************************)
\* the cache source and parameters of a fetcher
Fetchers ==
    [sector_prices |-> [source |-> "yfinance", params |-> [type |-> "sector_prices"]],
     macro_data    |-> [source |-> "fred", params |-> [series |-> "DGS10"]]]

ProviderAnswer(clock) == [kind |-> "dict", keys |-> "str", body |-> ("asof" :> clock)]

\* one fetcher: [value, dir], the value returned and the cache directory
\* it leaves
fetch_entry(dir, clock, f, up) ==
    LET cached == get_cached_data(dir, clock, f.source, f.params)
        key    == generate_cache_key(f.source, f.params)
    IN  IF ~IsNone(cached) THEN [value |-> cached, dir |-> dir]
        ELSE IF up
        THEN [value |-> Some(ProviderAnswer(clock)),
              dir   |-> [k \in DOMAIN dir \cup {key} |->
                            IF k = key THEN FileWritten(ProviderAnswer(clock), clock)
                            ELSE dir[k]]]
        ELSE [value |-> None, dir |-> dir]

\* fetch_all_data(): the fetchers one after the other; up says which
\* providers answer
fetch_all_data(dir, clock, up) ==
    LET prices == fetch_entry(dir, clock, Fetchers.sector_prices, up.sector_prices)
        macro  == fetch_entry(prices.dir, clock, Fetchers.macro_data, up.macro_data)
    IN  [data |-> [sector_prices |-> prices.value, macro_data |-> macro.value],
         dir  |-> macro.dir]

\* get_data(): [data, memo, dir, fetched]; fetched says whether
\* fetch_all_data was called
get_data(memo, dir, clock, up) ==
    IF IsNone(memo)
    THEN LET f == fetch_all_data(dir, clock, up)
         IN  [data |-> f.data, memo |-> Some(f.data), dir |-> f.dir, fetched |-> TRUE]
    ELSE [data |-> memo[1], memo |-> memo, dir |-> dir, fetched |-> FALSE]

\* faulty variant: the refresh keeps what is memoized
refresh_data_ifempty(memo, dir, clock, up) == get_data(memo, dir, clock, up)

\* refresh_data()
refresh_data(memo, dir, clock, up) ==
    LET f == fetch_all_data(dir, clock, up)
    IN  [data |-> f.data, memo |-> Some(f.data), dir |-> f.dir, fetched |-> TRUE]

\* a or b on an optional query value: None and 0 are falsy
Truthy(q) == ~IsNone(q) /\ q[1] # 0

\* lines 54-69 / 112-125: the weights handed to SectorScorer, None unless
\* some query value is truthy
RequestWeights(query) ==
    IF \E c \in Categories : Truthy(query[c])
    THEN LET filled == [c \in Categories |->
                           IF Truthy(query[c]) THEN query[c][1] ELSE SCORING_WEIGHTS[c]]
             total  == MapSum(filled)
         IN  Some([c \in Categories |-> [num |-> filled[c], den |-> total]])
    ELSE None

\* self.weights = weights or SCORING_WEIGHTS, as fractions
ScorerWeights(w) ==
    IF IsNone(w) THEN [c \in Categories |-> [num |-> SCORING_WEIGHTS[c], den |-> 1000]]
    ELSE w[1]

\* query strings: the five optional values, in thousandths
Q5(a, b, c, d, e) ==
    [momentum |-> a, valuation |-> b, growth |-> c, innovation |-> d, macro |-> e]

Queries ==
    { Q5(None, None, None, None, None),
      Q5(Some(500), Some(500), Some(500), Some(500), Some(500)),
      Q5(Some(1000), Some(0), Some(0), Some(0), Some(0)),
      Q5(Some(500), Some(250), Some(100), Some(100), Some(50)),
      Q5(Some(500), None, None, None, None) }

Providers == [sector_prices : BOOLEAN, macro_data : BOOLEAN]

InitApi ==
    /\ cached_data = None
    /\ files = EmptyMap
    /\ now = 0
    /\ ret = [op |-> "none"]
    /\ pc = "off" /\ weights = EmptyMap /\ data = EmptyMap /\ scores = <<>> /\ err = "none"
    /\ NormOff /\ ReportOff /\ RunsOff /\ SignalsOff

\* the state a scores handler leaves: the memo, the cache directory, the
\* scorer's weights
Handled(op, query, refresh, up, got) ==
    /\ cached_data' = got.memo
    /\ files' = got.dir
    /\ weights' = ScorerWeights(RequestWeights(query))
    /\ ret' = [op |-> op, query |-> query, refresh |-> refresh, upstream |-> up,
               fetched |-> got.fetched, data |-> got.data]
    /\ UNCHANGED <<pc, data, scores, err, now>>
    /\ UNCHANGED <<nvars, rvars, tvars, svars>>

\* GET /api/scores
GetScores(query, refresh, up) ==
    Handled("get_scores", query, refresh, up,
            IF refresh THEN refresh_data(cached_data, files, now, up)
            ELSE get_data(cached_data, files, now, up))

\* GET /api/scores/summary
GetSummary(query, up) ==
    Handled("get_summary", query, FALSE, up, get_data(cached_data, files, now, up))

\* POST /api/cache/clear: clear_cache(), then refresh_data()
ClearAllCache(up) ==
    LET got == refresh_data(cached_data, EmptyMap, now, up)
    IN  /\ cached_data' = got.memo
        /\ files' = got.dir
        /\ ret' = [op |-> "clear_all_cache", files_removed |-> Cardinality(DOMAIN files),
                   upstream |-> up, fetched |-> got.fetched, data |-> got.data]
        /\ UNCHANGED <<cvars, now>>
        /\ UNCHANGED <<nvars, rvars, tvars, svars>>

NextApi ==
    \/ Tick
    \/ \E q \in Queries, refresh \in BOOLEAN, up \in Providers : GetScores(q, refresh, up)
    \/ \E q \in Queries, up \in Providers : GetSummary(q, up)
    \/ \E up \in Providers : ClearAllCache(up)

SpecApi == InitApi /\ [][NextApi]_vars

(***************************************************************************)
(* Claims about the endpoints (checked under SpecApi)                      *)
(***************************************************************************)
\* the sum of the supplied query values
Supplied(query) == MapSum([c \in Categories |-> query[c][1]])

\* C28 as stated: when all five weights are supplied as query values with at
\* least one non-zero, the weight handed to SectorScorer for each category
\* is its supplied value divided by the sum of the supplied values; a
\* category supplied as 0 has weight 0.
C28_AsStated ==
    (/\ ret.op \in {"get_scores", "get_summary"}
     /\ \A c \in Categories : ~IsNone(ret.query[c])
     /\ \E c \in Categories : ret.query[c][1] # 0) =>
        \A c \in Categories :
            weights[c].num * Supplied(ret.query) = ret.query[c][1] * weights[c].den

\* the provider answers in a fetched data set were all given at hour t
AllAsOf(d, t) ==
    \A k \in DOMAIN d : ~IsNone(d[k]) => d[k][1].body["asof"] = t

\* C29: get_data calls fetch_all_data exactly when nothing is memoized, and
\* returns the memoized data unchanged otherwise; once something is
\* memoized something stays memoized; refresh_data always fetches and
\* replaces the memo by what it fetched; and after clear_all_cache the memo
\* is the result of a fetch made on the emptied cache directory: nothing in
\* it comes from a cache file, every provider answer in it is of this hour.
C29_Memoization ==
    [][ /\ ~IsNone(cached_data) => ~IsNone(cached_data')
        /\ (ret'.op \in {"get_scores", "get_summary"} /\ ~ret'.refresh) =>
              /\ ret'.fetched <=> IsNone(cached_data)
              /\ ~IsNone(cached_data) =>
                    /\ cached_data' = cached_data
                    /\ ret'.data = cached_data[1]
                    /\ files' = files
        /\ (ret'.op = "get_scores" /\ ret'.refresh) =>
              /\ ret'.fetched
              /\ cached_data' = Some(fetch_all_data(files, now, ret'.upstream).data)
              /\ ret'.data = cached_data'[1]
        /\ ret'.op = "clear_all_cache" =>
              /\ ret'.fetched
              /\ cached_data' = Some(fetch_all_data(EmptyMap, now, ret'.upstream).data)
              /\ AllAsOf(cached_data'[1], now)
              /\ \A k \in DOMAIN files' : files'[k].mtime = now ]_vars

\* C29 witness: the cache was just cleared at a later hour than the files
\* and the memo it replaced, and the memo now holds this hour's answers
C29_Witness ==
    /\ ret.op = "clear_all_cache"
    /\ ret.files_removed > 0
    /\ now > 0
    /\ ~IsNone(cached_data)
    /\ \A k \in DOMAIN cached_data[1] : ~IsNone(cached_data[1][k])
    /\ AllAsOf(cached_data[1], now)

====
